---- MODULE Spec2Model ----
(***************************************************************************)
(* The Pluto evaluator (src/interpreter.js, src/environment.js) as a state *)
(* machine.  A program is not fixed in advance: every step executes one    *)
(* statement chosen from a bounded grammar in the scope the evaluator is   *)
(* currently in, so the behaviours of the model cover the runs of every    *)
(* program built from that grammar.                                        *)
(*                                                                         *)
(* Names such as __proto__, constructor or toString never reach the        *)
(* evaluator as identifiers through execute(text) (Lexer.readIdentifier    *)
(* looks them up in KEYWORDS and finds an inherited property), so Names    *)
(* holds ordinary identifiers only.                                        *)
(***************************************************************************)
EXTENDS Integers, Sequences, FiniteSets, TLC

VARIABLES
  scopes,    \* the live Environment objects, scopes[1] is globalEnv; the
             \* field firsts is history: the names whose assignments bound
             \* them in an invocation's scope, in the order they first did
  ctrl,      \* the evaluator's activation stack (program, call, each, as, check)
  status,    \* "idle" | "running" | "error"
  ret,       \* value returned by the last completed execute
  steps,     \* statements executed so far
  lastCall,  \* history: the action invocation that returned in the last step, if any
  lastOp,    \* history: the last operation performed; holder is the scope
             \* that bound the assigned name before an assignment, and the
             \* number of names the dropped scope bound when an iteration ends
  asrun,     \* the run of  x = n; as (x > 0) x = x - 1 end; x
  eachrun,   \* the run of  x = 0; each (p in [1, ..., len]) x = x + 1 end; x
  logic,     \* the evaluation of one  left && right  or  left || right  and
             \* what console.log has printed meanwhile
  mem,       \* arrays as the host's mutable objects: the array bound to x,
             \* the value of the last expression, and the last operation
  lexer,     \* the scanner of one text: input, position, line, column, tokens
  run        \* one call of PlutoInterpreter.execute(text): its phase, the
             \* statements parsed and evaluated, and its outcome

vars == <<scopes, ctrl, status, ret, steps, lastCall, lastOp, asrun, eachrun,
          logic, mem, lexer, run>>

\* the evaluator proper
evalVars == <<scopes, ctrl, status, ret, steps, lastCall, lastOp>>

\* the runs of the fixed programs other than the countdown
otherRuns == <<eachrun, logic, mem, lexer, run>>

-----------------------------------------------------------------------------
(* Bounds *)

MaxVal   == 1    \* number literals are 0..MaxVal
MaxSteps == 4    \* statements executed in one behaviour
MaxDepth == 4    \* nesting of program/call/each/as/check activations
MaxArr   == 2    \* length of an array literal iterated by each
MaxStart == 6    \* small starting values n of the counting while loop

maxIterations == 10000

\* the identifiers of the generated programs
BuiltinNames == {"abs"}
Targets      == {"x", "y", "p", "f"}     \* assigned by  name = ...
Names        == Targets \cup BuiltinNames
ActionNames  == {"f"}                    \* declared by  action name(...)
ParamLists   == {<< >>, <<"p">>, <<"x">>}
LoopVars     == {"p"}                    \* each (variable in ...)

-----------------------------------------------------------------------------
(* Values *)

Num(n)     == [t |-> "num", n |-> n]
Null       == [t |-> "null"]
Unbound    == [t |-> "unbound"]
Builtin    == [t |-> "builtin"]
Fn(ps, d)  == [t |-> "fn", params |-> ps, def |-> d]
Rec(ks, vs) == [t |-> "rec", keys |-> ks, vals |-> vs]
Arr(es)    == [t |-> "arr", elems |-> es]
Bool(b)    == [t |-> "bool", b |-> b]
Str(s)     == [t |-> "str", s |-> s]
Undefined  == [t |-> "undefined"]
Thrown(m, n) == [t |-> "error", msg |-> m, name |-> n]

\* the Error PlutoInterpreter.execute throws for a caught error: its message
\* is the fixed prefix followed by the message of the caught error
PlutoError(err) ==
  [t |-> "error", msg |-> <<"Pluto Error: ", err.msg>>, name |-> err.name]

Nums == {Num(n) : n \in 0..MaxVal}

IsError(v) == v.t = "error"

isTruthy(v) ==
  IF v.t \in {"null", "undefined"} THEN FALSE
  ELSE IF v.t = "bool" THEN v.b
  ELSE IF v.t = "num" THEN v.n # 0
  ELSE IF v.t = "str" THEN Len(v.s) > 0
  ELSE TRUE

SeqToSet(s) == {s[i] : i \in 1..Len(s)}

-----------------------------------------------------------------------------
(* Environment *)

NoVars == [n \in Names |-> Unbound]

Environment(parent) ==
  [parent |-> parent, variables |-> NoVars, isAction |-> FALSE,
   params |-> << >>, assigned |-> << >>, firsts |-> << >>]

HasLocal(S, e, name) == S[e].variables[name] # Unbound

RECURSIVE has(_, _, _)
has(S, e, name) ==
  IF HasLocal(S, e, name) THEN TRUE
  ELSE IF S[e].parent # 0 THEN has(S, S[e].parent, name)
  ELSE FALSE

RECURSIVE get(_, _, _)
get(S, e, name) ==
  IF HasLocal(S, e, name) THEN S[e].variables[name]
  ELSE IF S[e].parent # 0 THEN get(S, S[e].parent, name)
  ELSE Thrown("Undefined variable", name)

\* Environment.prototype.define: the local frame only
originalDefine(S, e, name, value) ==
  [S EXCEPT ![e].variables[name] = value]

\* assignedVars is a Set: insertion order, no duplicates
AddAssigned(assigned, name) ==
  IF name \in SeqToSet(assigned) THEN assigned ELSE Append(assigned, name)

\* the per-call override of define installed on actionEnv
actionDefine(S, e, name, value) ==
  LET T == IF name \notin SeqToSet(S[e].params)
           THEN [S EXCEPT ![e].assigned = AddAssigned(@, name)]
           ELSE S
  IN originalDefine(T, e, name, value)

\* a faulty variant: the override of set binds locally but forgets assignedVars.add
actionSetUntracked(S, e, name, value) ==
  originalDefine(S, e, name, value)

\* a faulty variant: the override of set records parameters too
actionSetTracksParams(S, e, name, value) ==
  originalDefine([S EXCEPT ![e].assigned = AddAssigned(@, name)], e, name, value)

\* the per-call override of set installed on actionEnv
actionSet(S, e, name, value) ==
  LET T == IF name \notin SeqToSet(S[e].params)
           THEN [S EXCEPT ![e].assigned = AddAssigned(@, name)]
           ELSE S
  IN originalDefine(T, e, name, value)

\* env.define(...) as dispatched on the object
define(S, e, name, value) ==
  IF S[e].isAction THEN actionDefine(S, e, name, value)
  ELSE originalDefine(S, e, name, value)

\* a faulty variant: set writes the local frame without walking the chain
originalSetLocal(S, e, name, value) ==
  [S |-> [S EXCEPT ![e].variables[name] = value], err |-> Null]

\* env.set(...) as dispatched on the object; the result carries the
\* scopes and the error thrown, if any
RECURSIVE set(_, _, _, _)

\* a faulty variant: a name that no frame binds is bound in the outermost
originalSetDefines(S, e, name, value) ==
  IF HasLocal(S, e, name)
    THEN [S |-> [S EXCEPT ![e].variables[name] = value], err |-> Null]
  ELSE IF S[e].parent # 0 THEN set(S, S[e].parent, name, value)
  ELSE [S |-> [S EXCEPT ![e].variables[name] = value], err |-> Null]

\* Environment.prototype.set: the nearest frame that binds the name
originalSet(S, e, name, value) ==
  IF HasLocal(S, e, name)
    THEN [S |-> [S EXCEPT ![e].variables[name] = value], err |-> Null]
  ELSE IF S[e].parent # 0 THEN set(S, S[e].parent, name, value)
  ELSE [S |-> S, err |-> Thrown("Undefined variable", name)]

\* a faulty variant: the override installed on actionEnv is not used
setOfPrototype(S, e, name, value) == originalSet(S, e, name, value)

set(S, e, name, value) ==
  IF S[e].isAction THEN [S |-> actionSet(S, e, name, value), err |-> Null]
  ELSE originalSet(S, e, name, value)

\* a faulty variant: a new name is defined in the enclosing scope when there is one
evaluateNodeDeclarationHoists(S, e, name, value) ==
  IF HasLocal(S, e, name)
    THEN [S |-> [S EXCEPT ![e].variables[name] = value], err |-> Null]
  ELSE IF S[e].parent # 0 /\ has(S, S[e].parent, name)
    THEN set(S, e, name, value)
  ELSE IF S[e].parent # 0
    THEN [S |-> define(S, S[e].parent, name, value), err |-> Null]
  ELSE [S |-> define(S, e, name, value), err |-> Null]

\* the assignment statement  name = value  evaluated in scope e
evaluateNodeDeclaration(S, e, name, value) ==
  IF HasLocal(S, e, name)
    THEN [S |-> [S EXCEPT ![e].variables[name] = value], err |-> Null]
  ELSE IF S[e].parent # 0 /\ has(S, S[e].parent, name)
    THEN set(S, e, name, value)
  ELSE [S |-> define(S, e, name, value), err |-> Null]

-----------------------------------------------------------------------------
(* Expressions: literals, identifiers and binary operations on those *)

Lit(v)        == [k |-> "lit", v |-> v]
Id(n)         == [k |-> "id", name |-> n]
Bin(op, l, r) == [k |-> "bin", op |-> op, left |-> l, right |-> r]

evaluateAtom(S, e, x) ==
  IF x.k = "lit" THEN x.v ELSE get(S, e, x.name)

evaluateBinaryExpression(S, e, x) ==
  LET left  == evaluateAtom(S, e, x.left)
      right == evaluateAtom(S, e, x.right)
  IN IF IsError(left) THEN left
     ELSE IF IsError(right) THEN right
     ELSE IF x.op = "+" THEN Num(left.n + right.n)
     ELSE IF x.op = "-" THEN Num(left.n - right.n)
     ELSE Bool(left.n > right.n)

evaluate(S, e, x) ==
  IF x.k = "bin" THEN evaluateBinaryExpression(S, e, x)
  ELSE evaluateAtom(S, e, x)

\* the operands of the arithmetic of a generated expression are numbers
NumericOperands(S, e, x) ==
  x.k = "bin" =>
    /\ has(S, e, x.left.name)  => get(S, e, x.left.name).t = "num"
    /\ x.right.k = "id" /\ has(S, e, x.right.name)
         => get(S, e, x.right.name).t = "num"

\* the generated assignments:  name = 0 | 1 | ...,  x = x + p,  x = x - 1
AssignExprs(name) ==
  {Lit(v) : v \in Nums}
  \cup (IF name = "x"
          THEN {Bin("+", Id("x"), Id("p")), Bin("-", Id("x"), Lit(Num(1)))}
          ELSE {})

\* the generated expression statements read one identifier
ReadExprs == {Id(n) : n \in Targets}

\* the argument of a generated call
ArgExprs == {Lit(v) : v \in Nums} \cup {Id("x")}

\* conditions of the generated while loops and checks
Conds == {Bin(">", Id(n), Lit(Num(0))) : n \in {"x", "p"}}

\* the array literals [], [1], [1, 2], ...
ArrayLits == {[i \in 1..k |-> Num(i)] : k \in 0..MaxArr}

-----------------------------------------------------------------------------
(* Activations *)

Frame(kind, env) ==
  [kind |-> kind, env |-> env, last |-> Null, cond |-> Lit(Null),
   variable |-> "", iter |-> << >>, i |-> 0, iterations |-> 0]

Top     == ctrl[Len(ctrl)]
cur     == Top.env
Pop(s)  == SubSeq(s, 1, Len(s) - 1)
SetLast(C, v) == [C EXCEPT ![Len(C)].last = v]

Running == status = "running" /\ ctrl # << >>
CanStep == Running /\ steps < MaxSteps

NoCall == [valid |-> FALSE, assigned |-> << >>, firsts |-> << >>,
           locals |-> NoVars, params |-> << >>, bodyEmpty |-> FALSE,
           lastValue |-> Null, result |-> Null]
NoMemOp == [op |-> "none", name |-> "", object |-> [t |-> "null"],
            property |-> [t |-> "null"], args |-> << >>]
MemOff == [heap |-> << << >>, << >> >>, v |-> [t |-> "null"],
           err |-> [t |-> "null"], n |-> 0, last |-> NoMemOp]
LexerOff == [input |-> << >>, position |-> 0, line |-> 1, column |-> 1,
             tokens |-> << >>, pc |-> "off", err |-> [t |-> "null"]]
RunOff == [pc |-> "off", ast |-> << >>, i |-> 0, globals |-> << >>,
           result |-> [t |-> "null"], value |-> [t |-> "null"],
           error |-> [t |-> "null"], raised |-> << >>, after |-> 0]
LogicOff == [pc |-> "off", x |-> [k |-> "lit", v |-> [t |-> "null"]],
             console |-> << >>, result |-> [t |-> "null"]]
EachOff == [pc |-> "off", len |-> 0, bodyRuns |-> 0, inOrder |-> TRUE]
NoOp   == [op |-> "none", name |-> "", env |-> 0, value |-> Null, holder |-> 0]
Op(op, name, env, value, holder) ==
  [op |-> op, name |-> name, env |-> env, value |-> value, holder |-> holder]

\* the scope in which a lookup of name from scope e finds it, 0 if none
RECURSIVE Holder(_, _, _)
Holder(S, e, name) ==
  IF HasLocal(S, e, name) THEN e
  ELSE IF S[e].parent # 0 THEN Holder(S, S[e].parent, name)
  ELSE 0

\* the scope of the innermost action invocation whose body the code
\* running in scope e belongs to, 0 at the top level
RECURSIVE CallScope(_, _)
CallScope(S, e) ==
  IF S[e].isAction THEN e
  ELSE IF S[e].parent # 0 THEN CallScope(S, S[e].parent)
  ELSE 0

AppendOnce(s, x) == IF \E i \in 1..Len(s) : s[i] = x THEN s ELSE Append(s, x)

\* history: an assignment to name made from scope e has produced S; when
\* the binding it wrote belongs to an invocation's scope and is not one
\* of its parameters, the name is noted there, once
NoteFirst(S, e, name) ==
  LET h == Holder(S, e, name) IN
    IF h # 0 /\ S[h].isAction /\ \A i \in 1..Len(S[h].params) : S[h].params[i] # name
      THEN [S EXCEPT ![h].firsts = AppendOnce(@, name)]
    ELSE S

\* a faulty variant: the global scope is put back to what the constructor
\* made
ThrowRollsBack(S, err) ==
  /\ status' = "error"
  /\ ctrl' = << >>
  /\ scopes' = << [Environment(0) EXCEPT
                     !.variables = [n \in Names |->
                                IF n \in BuiltinNames THEN Builtin ELSE Unbound]] >>
  /\ ret' = PlutoError(err)
  /\ lastOp' = Op("throw", err.name, 0, err, 0)
  /\ lastCall' = NoCall
  /\ UNCHANGED <<steps, asrun>>

\* an Error propagates out of Interpreter.execute: every activation is
\* abandoned, the global scope keeps what was done to it
Throw(S, err) ==
  /\ status' = "error"
  /\ ctrl' = << >>
  /\ scopes' = <<S[1]>>
  /\ ret' = PlutoError(err)
  /\ lastOp' = Op("throw", err.name, 0, err, 0)
  /\ lastCall' = NoCall
  /\ UNCHANGED <<steps, asrun>>

-----------------------------------------------------------------------------
(* PlutoInterpreter.execute and the statements *)

Init ==
  /\ scopes = << [Environment(0) EXCEPT
                    !.variables = [n \in Names |->
                               IF n \in BuiltinNames THEN Builtin ELSE Unbound]] >>
  /\ ctrl = << >>
  /\ status = "idle"
  /\ ret = Null
  /\ steps = 0
  /\ lastCall = NoCall
  /\ lastOp = NoOp
  /\ asrun = [pc |-> "off", n |-> 0, bodyRuns |-> 0, condEvals |-> 0]
  /\ eachrun = EachOff
  /\ logic = LogicOff
  /\ mem = MemOff
  /\ lexer = LexerOff
  /\ run = RunOff

\* a faulty variant: every execute starts from a new global scope
ExecuteFreshGlobals ==
  /\ UNCHANGED otherRuns
  /\ status # "running"
  /\ steps < MaxSteps
  /\ status' = "running"
  /\ scopes' = << [Environment(0) EXCEPT
                     !.variables = [n \in Names |->
                                IF n \in BuiltinNames THEN Builtin ELSE Unbound]] >>
  /\ ctrl' = << Frame("program", 1) >>
  /\ lastOp' = Op("execute", "", 1, Null, 0)
  /\ lastCall' = NoCall
  /\ UNCHANGED <<ret, steps, asrun>>

\* execute(code): the program's statements run in globalEnv
Execute ==
  /\ UNCHANGED otherRuns
  /\ status # "running"
  /\ steps < MaxSteps
  /\ status' = "running"
  /\ ctrl' = << Frame("program", 1) >>
  /\ lastOp' = Op("execute", "", 1, Null, 0)
  /\ lastCall' = NoCall
  /\ UNCHANGED <<scopes, ret, steps, asrun>>

\* evaluateProgram returns the value of the last statement
ProgramEnd ==
  /\ UNCHANGED otherRuns
  /\ Running
  /\ Top.kind = "program"
  /\ status' = "idle"
  /\ ctrl' = << >>
  /\ ret' = Top.last
  /\ lastOp' = Op("programEnd", "", 1, Top.last, 0)
  /\ lastCall' = NoCall
  /\ UNCHANGED <<scopes, steps, asrun>>

\* the statement  name = x
Assign(name, x) ==
  /\ UNCHANGED otherRuns
  /\ CanStep
  /\ NumericOperands(scopes, cur, x)
  /\ LET value == evaluate(scopes, cur, x) IN
       IF IsError(value) THEN Throw(scopes, value)
       ELSE LET r == evaluateNodeDeclaration(scopes, cur, name, value) IN
         /\ value.t = "num"
         /\ IF IsError(r.err) THEN Throw(r.S, r.err)
            ELSE /\ scopes' = NoteFirst(r.S, cur, name)
                 /\ ctrl' = SetLast(ctrl, value)
                 /\ steps' = steps + 1
                 /\ lastOp' = Op("assign", name, cur, value, Holder(scopes, cur, name))
                 /\ lastCall' = NoCall
                 /\ UNCHANGED <<status, ret, asrun>>

\* an expression statement
ExprStmt(x) ==
  /\ UNCHANGED otherRuns
  /\ CanStep
  /\ NumericOperands(scopes, cur, x)
  /\ LET value == evaluate(scopes, cur, x) IN
       IF IsError(value) THEN Throw(scopes, value)
       ELSE /\ ctrl' = SetLast(ctrl, value)
            /\ steps' = steps + 1
            /\ lastOp' = Op("expr", "", cur, value, 0)
            /\ lastCall' = NoCall
            /\ UNCHANGED <<scopes, status, ret, asrun>>

\* the statement  action name(params) ... end
evaluateActionDeclaration(name, params) ==
  /\ UNCHANGED otherRuns
  /\ CanStep
  /\ LET action == Fn(params, cur) IN
       /\ scopes' = NoteFirst(define(scopes, cur, name, action), cur, name)
       /\ ctrl' = SetLast(ctrl, action)
       /\ steps' = steps + 1
       /\ lastOp' = Op("action", name, cur, action, Holder(scopes, cur, name))
       /\ lastCall' = NoCall
       /\ UNCHANGED <<status, ret, asrun>>

\* the builtin abs: (x) => Math.abs(x)
abs(v) == Num(IF v.n < 0 THEN 0 - v.n ELSE v.n)

\* the first Error thrown while the arguments are evaluated left to right
RECURSIVE FirstError(_)
FirstError(vals) ==
  IF vals = << >> THEN Null
  ELSE IF IsError(Head(vals)) THEN Head(vals)
  ELSE FirstError(Tail(vals))

\* a faulty variant: the scope of an invocation hangs below the caller's
actionEnvOfCaller(fn, args) ==
  [parent |-> cur,
   variables |-> [n \in Names |->
              IF \E i \in 1..Len(fn.params) : fn.params[i] = n
              THEN args[CHOOSE i \in 1..Len(fn.params) :
                          /\ fn.params[i] = n
                          /\ \A j \in (i+1)..Len(fn.params) : fn.params[j] # n]
              ELSE Unbound],
   isAction |-> TRUE, params |-> fn.params, assigned |-> << >>,
   firsts |-> << >>]

\* the scope of one invocation: parameters bound by the plain define,
\* then define and set overridden on this object
actionEnv(fn, args) ==
  [parent |-> fn.def,
   variables |-> [n \in Names |->
              IF \E i \in 1..Len(fn.params) : fn.params[i] = n
              THEN args[CHOOSE i \in 1..Len(fn.params) :
                          /\ fn.params[i] = n
                          /\ \A j \in (i+1)..Len(fn.params) : fn.params[j] # n]
              ELSE Unbound],
   isAction |-> TRUE, params |-> fn.params, assigned |-> << >>,
   firsts |-> << >>]

\* the statement  f(args)
evaluateCallExpression(f, argx) ==
  /\ UNCHANGED otherRuns
  /\ CanStep
  /\ LET fn == get(scopes, cur, f) IN
       IF IsError(fn) THEN Throw(scopes, fn)
       ELSE IF fn.t \notin {"fn", "builtin"}
         THEN /\ argx = << >>
              /\ Throw(scopes, Thrown("is not a function", f))
       ELSE
         LET args == [i \in 1..Len(argx) |-> evaluateAtom(scopes, cur, argx[i])]
             err  == FirstError(args)
         IN /\ Len(argx) = (IF fn.t = "builtin" THEN 1 ELSE Len(fn.params))
            /\ IF IsError(err) THEN Throw(scopes, err)
               ELSE IF fn.t = "builtin"
                 THEN /\ args[1].t = "num"
                      /\ ctrl' = SetLast(ctrl, abs(args[1]))
                      /\ steps' = steps + 1
                      /\ lastOp' = Op("builtin", f, cur, abs(args[1]), 0)
                      /\ lastCall' = NoCall
                      /\ UNCHANGED <<scopes, status, ret, asrun>>
               ELSE /\ Len(ctrl) < MaxDepth
                    /\ scopes' = Append(scopes, actionEnv(fn, args))
                    /\ ctrl' = Append(ctrl, Frame("call", Len(scopes) + 1))
                    /\ steps' = steps + 1
                    /\ lastOp' = Op("call", f, Len(scopes) + 1, Null, 0)
                    /\ lastCall' = NoCall
                    /\ UNCHANGED <<status, ret, asrun>>

\* a faulty variant: one assigned name is already returned as a Record (size > 0)
implicitReturnFromOne(S, e, lastValue) ==
  LET assignedVars == S[e].assigned IN
    IF Len(assignedVars) > 0
      THEN Rec(assignedVars, [i \in 1..Len(assignedVars) |-> get(S, e, assignedVars[i])])
    ELSE lastValue

\* a faulty variant: the Record is built from the parameters and the assigned names
implicitReturnWithParams(S, e, lastValue) ==
  LET assignedVars == S[e].assigned
      keys == S[e].params \o assignedVars
  IN IF Len(assignedVars) > 1
       THEN Rec(keys, [i \in 1..Len(keys) |-> get(S, e, keys[i])])
     ELSE IF Len(assignedVars) = 1 THEN get(S, e, assignedVars[1])
     ELSE lastValue

\* a faulty variant: without assigned names the last value is dropped
implicitReturnDropsLast(S, e, lastValue) ==
  LET assignedVars == S[e].assigned IN
    IF Len(assignedVars) > 1
      THEN Rec(assignedVars, [i \in 1..Len(assignedVars) |-> get(S, e, assignedVars[i])])
    ELSE IF Len(assignedVars) = 1 THEN get(S, e, assignedVars[1])
    ELSE Null

\* the implicit return of an invocation whose scope is e
implicitReturn(S, e, lastValue) ==
  LET assignedVars == S[e].assigned IN
    IF Len(assignedVars) > 1
      THEN LET vals == [i \in 1..Len(assignedVars) |-> get(S, e, assignedVars[i])]
           IN IF IsError(FirstError(vals)) THEN FirstError(vals)
              ELSE Rec(assignedVars, vals)
    ELSE IF Len(assignedVars) = 1 THEN get(S, e, assignedVars[1])
    ELSE lastValue

\* the body of the invocation has run to its end
ActionReturn ==
  /\ UNCHANGED otherRuns
  /\ Running
  /\ Top.kind = "call"
  /\ LET result == implicitReturn(scopes, cur, Top.last) IN
       IF IsError(result) THEN Throw(scopes, result)
       ELSE /\ scopes' = Pop(scopes)
            /\ ctrl' = SetLast(Pop(ctrl), result)
            /\ lastCall' = [valid |-> TRUE, assigned |-> scopes[cur].assigned,
                            firsts |-> scopes[cur].firsts,
                            locals |-> scopes[cur].variables,
                            params |-> scopes[cur].params,
                            bodyEmpty |-> lastOp.op = "call",
                            lastValue |-> Top.last, result |-> result]
            /\ lastOp' = Op("return", "", cur, result, 0)
            /\ UNCHANGED <<status, ret, steps, asrun>>

\* a faulty variant: the iterations of a loop share one scope
loopEnvShared(e, variable, element) ==
  LET old == scopes[Len(scopes)] IN
    IF Len(scopes) > 1 /\ old.parent = e /\ ~old.isAction
      THEN [old EXCEPT !.variables[variable] = element]
    ELSE [Environment(e) EXCEPT !.variables[variable] = element]

\* the scope of one iteration of an each loop met in scope e
loopEnv(e, variable, element) ==
  [Environment(e) EXCEPT !.variables[variable] = element]

\* a faulty variant: the loop runs over the whole array whatever its length
eachContinuesUnbounded(i, length) == i < length

\* the for condition of evaluateEachStatement, i counting from 0
eachContinues(i, length) == i < length /\ i < maxIterations

EachRequiresArray == Thrown("Each statement requires an array", "")

\* a faulty variant: an iterable that is not an array is taken as an empty one
evaluateEachStatementLenient(variable, iterable) ==
  /\ UNCHANGED otherRuns
  /\ CanStep
  /\ iterable.t # "arr"
  /\ ctrl' = SetLast(ctrl, Null)
  /\ steps' = steps + 1
  /\ lastOp' = Op("eachEmpty", variable, cur, Null, 0)
  /\ lastCall' = NoCall
  /\ UNCHANGED <<scopes, status, ret, asrun>>

\* the statement  each (variable in iterable) ... end : the iterable is
\* evaluated and the first iteration, if any, is entered
evaluateEachStatement(variable, iterable) ==
  /\ UNCHANGED otherRuns
  /\ CanStep
  /\ IF iterable.t # "arr"
       THEN Throw(scopes, EachRequiresArray)
     ELSE IF eachContinues(0, Len(iterable.elems))
       THEN /\ Len(ctrl) < MaxDepth
            /\ scopes' = Append(scopes, loopEnv(cur, variable, iterable.elems[1]))
            /\ ctrl' = Append(ctrl, [Frame("each", Len(scopes) + 1) EXCEPT
                                       !.variable = variable,
                                       !.iter = iterable.elems, !.i = 0])
            /\ steps' = steps + 1
            /\ lastOp' = Op("each", variable, Len(scopes) + 1, iterable.elems[1], 0)
            /\ lastCall' = NoCall
            /\ UNCHANGED <<status, ret, asrun>>
     ELSE /\ ctrl' = SetLast(ctrl, Null)
          /\ steps' = steps + 1
          /\ lastOp' = Op("eachEmpty", variable, cur, Null, 0)
          /\ lastCall' = NoCall
          /\ UNCHANGED <<scopes, status, ret, asrun>>

\* the body of the current iteration has run to its end: its scope is
\* dropped and the next iteration is entered or the loop is left
EachNext ==
  /\ UNCHANGED otherRuns
  /\ Running
  /\ Top.kind = "each"
  /\ LET i == Top.i + 1
         outer == scopes[cur].parent
     IN IF eachContinues(i, Len(Top.iter))
          THEN /\ scopes' = Append(Pop(scopes), loopEnv(outer, Top.variable, Top.iter[i + 1]))
               /\ ctrl' = [ctrl EXCEPT ![Len(ctrl)].i = i, ![Len(ctrl)].last = Null]
               /\ lastOp' = Op("eachNext", Top.variable, cur, Top.iter[i + 1],
                               Cardinality({n \in Names : HasLocal(scopes, cur, n)}))
               /\ lastCall' = NoCall
               /\ UNCHANGED <<status, ret, steps, asrun>>
        ELSE /\ scopes' = Pop(scopes)
             /\ ctrl' = SetLast(Pop(ctrl), Top.last)
             /\ lastOp' = Op("eachEnd", Top.variable, outer, Top.last,
                             Cardinality({n \in Names : HasLocal(scopes, cur, n)}))
             /\ lastCall' = NoCall
             /\ UNCHANGED <<status, ret, steps, asrun>>

\* a faulty variant: the counter is incremented before it is tested
asHeadPreIncrement(condition, iterations) ==
  IF isTruthy(condition)
    THEN IF iterations + 1 >= maxIterations THEN "throw" ELSE "body"
  ELSE "exit"

\* a faulty variant: the limit is tested with > instead of >=
asHeadOffByOne(condition, iterations) ==
  IF isTruthy(condition)
    THEN IF iterations > maxIterations THEN "throw" ELSE "body"
  ELSE "exit"

\* one pass through the head of the while loop of evaluateAsStatement:
\* the condition has been evaluated, iterations is the counter before
\* the test  iterations++ >= this.maxIterations
asHead(condition, iterations) ==
  IF isTruthy(condition)
    THEN IF iterations >= maxIterations THEN "throw" ELSE "body"
  ELSE "exit"

\* a faulty variant: the body of a while loop is evaluated in the parent scope
asBodyEnvParent(S, e) == IF S[e].parent # 0 THEN S[e].parent ELSE e

\* the scope the body of a while loop met in scope e is evaluated in
asBodyEnv(S, e) == e

\* a faulty variant: the branch of a check is evaluated in the parent scope
checkBranchEnvParent(S, e) == IF S[e].parent # 0 THEN S[e].parent ELSE e

\* the scope the executed branch of a check met in scope e is evaluated in
checkBranchEnv(S, e) == e

IterationLimit == Thrown("Maximum iteration limit exceeded in as loop", "")

\* the statement  as (cond) ... end : first evaluation of the condition
evaluateAsStatement(cond) ==
  /\ UNCHANGED otherRuns
  /\ CanStep
  /\ NumericOperands(scopes, cur, cond)
  /\ LET c == evaluate(scopes, cur, cond)
         h == asHead(c, 0)
     IN IF IsError(c) THEN Throw(scopes, c)
        ELSE IF h = "throw" THEN Throw(scopes, IterationLimit)
        ELSE IF h = "body"
          THEN /\ Len(ctrl) < MaxDepth
               /\ ctrl' = Append(ctrl, [Frame("as", asBodyEnv(scopes, cur)) EXCEPT
                                          !.cond = cond, !.iterations = 1])
               /\ steps' = steps + 1
               /\ lastOp' = Op("as", "", cur, c, 0)
               /\ lastCall' = NoCall
               /\ UNCHANGED <<scopes, status, ret, asrun>>
        ELSE /\ ctrl' = SetLast(ctrl, Null)
             /\ steps' = steps + 1
             /\ lastOp' = Op("asSkip", "", cur, c, 0)
             /\ lastCall' = NoCall
             /\ UNCHANGED <<scopes, status, ret, asrun>>

\* the body of the while loop has run to its end: the condition is
\* evaluated again in the same scope
AsNext ==
  /\ UNCHANGED otherRuns
  /\ Running
  /\ Top.kind = "as"
  /\ NumericOperands(scopes, cur, Top.cond)
  /\ LET c == evaluate(scopes, cur, Top.cond)
         h == asHead(c, Top.iterations)
     IN IF IsError(c) THEN Throw(scopes, c)
        ELSE IF h = "throw" THEN Throw(scopes, IterationLimit)
        ELSE IF h = "body"
          THEN /\ steps < MaxSteps
               /\ ctrl' = [ctrl EXCEPT ![Len(ctrl)].iterations = @ + 1,
                                       ![Len(ctrl)].last = Null]
               /\ steps' = steps + 1
               /\ lastOp' = Op("asNext", "", cur, c, 0)
               /\ lastCall' = NoCall
               /\ UNCHANGED <<scopes, status, ret, asrun>>
        ELSE /\ ctrl' = SetLast(Pop(ctrl), Top.last)
             /\ lastOp' = Op("asEnd", "", cur, c, 0)
             /\ lastCall' = NoCall
             /\ UNCHANGED <<scopes, status, ret, steps, asrun>>

\* the statement  check (cond) ... [else ...] end
evaluateCheckStatement(cond, hasAlternate) ==
  /\ UNCHANGED otherRuns
  /\ CanStep
  /\ NumericOperands(scopes, cur, cond)
  /\ LET c == evaluate(scopes, cur, cond) IN
       IF IsError(c) THEN hasAlternate /\ Throw(scopes, c)
       ELSE IF isTruthy(c) \/ hasAlternate
         THEN /\ Len(ctrl) < MaxDepth
              /\ ctrl' = Append(ctrl, [Frame("check", checkBranchEnv(scopes, cur)) EXCEPT
                           !.variable = IF isTruthy(c) THEN "consequent"
                                        ELSE "alternate"])
              /\ steps' = steps + 1
              /\ lastOp' = Op("check", "", cur, c, 0)
              /\ lastCall' = NoCall
              /\ UNCHANGED <<scopes, status, ret, asrun>>
       ELSE /\ ctrl' = SetLast(ctrl, Null)
            /\ steps' = steps + 1
            /\ lastOp' = Op("checkSkip", "", cur, c, 0)
            /\ lastCall' = NoCall
            /\ UNCHANGED <<scopes, status, ret, asrun>>

\* the executed branch has run to its end
CheckEnd ==
  /\ UNCHANGED otherRuns
  /\ Running
  /\ Top.kind = "check"
  /\ ctrl' = SetLast(Pop(ctrl), Top.last)
  /\ lastOp' = Op("checkEnd", "", cur, Top.last, 0)
  /\ lastCall' = NoCall
  /\ UNCHANGED <<scopes, status, ret, steps, asrun>>

\* what the iterable of a generated each loop evaluates to: an array, or
\* a number, string, boolean, Record, callable, null or undefined
NonArrays ==
  {Num(0), Str("a"), Bool(TRUE), Rec(<< >>, << >>), Builtin, Null, Undefined}

Iterables == {Arr(es) : es \in ArrayLits} \cup NonArrays

Next ==
  \/ Execute
  \/ ProgramEnd
  \/ \E name \in Targets : \E x \in AssignExprs(name) : Assign(name, x)
  \/ \E x \in ReadExprs : ExprStmt(x)
  \/ \E name \in ActionNames, params \in ParamLists : evaluateActionDeclaration(name, params)
  \/ \E f \in Names, argx \in {<< >>} \cup {<<a>> : a \in ArgExprs} : evaluateCallExpression(f, argx)
  \/ ActionReturn
  \/ \E variable \in LoopVars, iterable \in Iterables : evaluateEachStatement(variable, iterable)
  \/ EachNext
  \/ \E cond \in Conds : evaluateAsStatement(cond)
  \/ AsNext
  \/ \E cond \in Conds, hasAlternate \in BOOLEAN : evaluateCheckStatement(cond, hasAlternate)
  \/ CheckEnd

Spec == Init /\ [][Next]_vars

TypeOK ==
  /\ status \in {"idle", "running", "error"}
  /\ Len(scopes) >= 1
  /\ steps \in 0..MaxSteps

-----------------------------------------------------------------------------
(* The program  x = n; as (x > 0) x = x - 1 end; x  run by execute *)

StartValues ==
  (0..MaxStart) \cup {maxIterations - 1, maxIterations, maxIterations + 1}

Countdown == Bin(">", Id("x"), Lit(Num(0)))
Decrement == Bin("-", Id("x"), Lit(Num(1)))

InitAs ==
  /\ scopes = << [Environment(0) EXCEPT
                    !.variables = [n \in Names |->
                               IF n \in BuiltinNames THEN Builtin ELSE Unbound]] >>
  /\ ctrl = << Frame("program", 1) >>
  /\ status = "running"
  /\ ret = Null
  /\ steps = 0
  /\ lastCall = NoCall
  /\ lastOp = NoOp
  /\ \E n \in StartValues :
       asrun = [pc |-> "assign", n |-> n, bodyRuns |-> 0, condEvals |-> 0]
  /\ eachrun = EachOff
  /\ logic = LogicOff
  /\ mem = MemOff
  /\ lexer = LexerOff
  /\ run = RunOff

\* x = n
CountdownAssign ==
  /\ UNCHANGED otherRuns
  /\ asrun.pc = "assign"
  /\ LET value == Num(asrun.n)
         r == evaluateNodeDeclaration(scopes, cur, "x", value)
     IN /\ scopes' = r.S
        /\ ctrl' = SetLast(ctrl, value)
        /\ lastOp' = Op("assign", "x", cur, value, 0)
  /\ asrun' = [asrun EXCEPT !.pc = "as"]
  /\ UNCHANGED <<status, ret, steps, lastCall>>

\* the head of the loop: the condition is evaluated, then the counter tested
CountdownHead ==
  /\ UNCHANGED otherRuns
  /\ asrun.pc \in {"as", "head"}
  /\ LET first == asrun.pc = "as"
         c == evaluate(scopes, cur, IF first THEN Countdown ELSE Top.cond)
         h == asHead(c, IF first THEN 0 ELSE Top.iterations)
     IN IF h = "throw"
          THEN /\ status' = "error"
               /\ ctrl' = << >>
               /\ ret' = PlutoError(IterationLimit)
               /\ lastOp' = Op("throw", "", 0, IterationLimit, 0)
               /\ asrun' = [asrun EXCEPT !.pc = "failed", !.condEvals = @ + 1]
        ELSE IF h = "body"
          THEN /\ ctrl' = IF first
                            THEN Append(ctrl, [Frame("as", asBodyEnv(scopes, cur)) EXCEPT
                                                 !.cond = Countdown, !.iterations = 1])
                          ELSE [ctrl EXCEPT ![Len(ctrl)].iterations = @ + 1,
                                            ![Len(ctrl)].last = Null]
               /\ lastOp' = Op("asNext", "", cur, c, 0)
               /\ asrun' = [asrun EXCEPT !.pc = "body", !.condEvals = @ + 1]
               /\ UNCHANGED <<status, ret>>
        ELSE /\ ctrl' = IF first THEN SetLast(ctrl, Null)
                        ELSE SetLast(Pop(ctrl), Top.last)
             /\ lastOp' = Op("asEnd", "", cur, c, 0)
             /\ asrun' = [asrun EXCEPT !.pc = "read", !.condEvals = @ + 1]
             /\ UNCHANGED <<status, ret>>
  /\ UNCHANGED <<scopes, steps, lastCall>>

\* the body: x = x - 1
CountdownBody ==
  /\ UNCHANGED otherRuns
  /\ asrun.pc = "body"
  /\ LET value == evaluate(scopes, cur, Decrement)
         r == evaluateNodeDeclaration(scopes, cur, "x", value)
     IN /\ scopes' = r.S
        /\ ctrl' = SetLast(ctrl, value)
        /\ lastOp' = Op("assign", "x", cur, value, 1)
  /\ asrun' = [asrun EXCEPT !.pc = "head", !.bodyRuns = @ + 1]
  /\ UNCHANGED <<status, ret, steps, lastCall>>

\* the last statement  x  and the return of execute
CountdownRead ==
  /\ UNCHANGED otherRuns
  /\ asrun.pc = "read"
  /\ status' = "idle"
  /\ ctrl' = << >>
  /\ ret' = evaluate(scopes, cur, Id("x"))
  /\ lastOp' = Op("programEnd", "", 1, Null, 0)
  /\ asrun' = [asrun EXCEPT !.pc = "done"]
  /\ UNCHANGED <<scopes, steps, lastCall>>

NextAs ==
  \/ CountdownAssign
  \/ CountdownHead
  \/ CountdownBody
  \/ CountdownRead

\* the evaluator is one synchronous thread: it always takes its next step
SpecAs == InitAs /\ [][NextAs]_vars /\ WF_vars(NextAs)

-----------------------------------------------------------------------------
(* The program  x = 0; each (p in [1, ..., len]) x = x + 1 end; x  run by  *)
(* execute.  The array is a constant of the run: the state keeps its      *)
(* length, and the frame of the loop its index.                           *)

EachLens ==
  (0..MaxArr) \cup {maxIterations - 1, maxIterations, maxIterations + 1}

\* the array literal [1, 2, ..., len]
BigArray(len) == [j \in 1..len |-> Num(j)]

Increment == Bin("+", Id("x"), Lit(Num(1)))

InitEach ==
  /\ scopes = << [Environment(0) EXCEPT
                    !.variables = [n \in Names |->
                               IF n \in BuiltinNames THEN Builtin ELSE Unbound]] >>
  /\ ctrl = << Frame("program", 1) >>
  /\ status = "running"
  /\ ret = Null
  /\ steps = 0
  /\ lastCall = NoCall
  /\ lastOp = NoOp
  /\ asrun = [pc |-> "off", n |-> 0, bodyRuns |-> 0, condEvals |-> 0]
  /\ \E len \in EachLens :
       eachrun = [pc |-> "assign", len |-> len, bodyRuns |-> 0, inOrder |-> TRUE]
  /\ logic = LogicOff
  /\ mem = MemOff
  /\ lexer = LexerOff
  /\ run = RunOff

\* x = 0
CountUpAssign ==
  /\ UNCHANGED <<logic, mem, lexer, run>>
  /\ eachrun.pc = "assign"
  /\ LET r == evaluateNodeDeclaration(scopes, cur, "x", Num(0))
     IN /\ scopes' = r.S
        /\ ctrl' = SetLast(ctrl, Num(0))
        /\ lastOp' = Op("assign", "x", cur, Num(0), 0)
  /\ eachrun' = [eachrun EXCEPT !.pc = "each"]
  /\ UNCHANGED <<status, ret, steps, lastCall, asrun>>

\* each (p in [1, ..., len]): the first iteration, if any, is entered
CountUpEach ==
  /\ UNCHANGED <<logic, mem, lexer, run>>
  /\ eachrun.pc = "each"
  /\ IF eachContinues(0, eachrun.len)
       THEN /\ scopes' = Append(scopes, loopEnv(cur, "p", BigArray(eachrun.len)[1]))
            /\ ctrl' = Append(ctrl, [Frame("each", Len(scopes) + 1) EXCEPT
                                       !.variable = "p", !.i = 0])
            /\ lastOp' = Op("each", "p", Len(scopes) + 1, BigArray(eachrun.len)[1], 0)
            /\ eachrun' = [eachrun EXCEPT !.pc = "body"]
     ELSE /\ ctrl' = SetLast(ctrl, Null)
          /\ lastOp' = Op("eachEmpty", "p", cur, Null, 0)
          /\ eachrun' = [eachrun EXCEPT !.pc = "read"]
          /\ UNCHANGED scopes
  /\ UNCHANGED <<status, ret, steps, lastCall, asrun>>

\* the body: x = x + 1; inOrder is history: so far every run of the body
\* had the index that follows the previous one, starting from 0, in a
\* child of the global scope binding p to the element at that index
CountUpBody ==
  /\ UNCHANGED <<logic, mem, lexer, run>>
  /\ eachrun.pc = "body"
  /\ LET value == evaluate(scopes, cur, Increment)
         r == evaluateNodeDeclaration(scopes, cur, "x", value)
     IN /\ scopes' = r.S
        /\ ctrl' = SetLast(ctrl, value)
        /\ lastOp' = Op("assign", "x", cur, value, 1)
  /\ eachrun' = [eachrun EXCEPT
                   !.pc = "next",
                   !.bodyRuns = @ + 1,
                   !.inOrder = /\ @
                               /\ Top.i = eachrun.bodyRuns
                               /\ Top.i < eachrun.len
                               /\ scopes[cur].parent = 1
                               /\ scopes[cur].variables["p"] =
                                    BigArray(eachrun.len)[Top.i + 1]]
  /\ UNCHANGED <<status, ret, steps, lastCall, asrun>>

\* i++ and the for condition: the next iteration is entered or the loop left
CountUpNext ==
  /\ UNCHANGED <<logic, mem, lexer, run>>
  /\ eachrun.pc = "next"
  /\ LET i == Top.i + 1
         outer == scopes[cur].parent
     IN IF eachContinues(i, eachrun.len)
          THEN /\ scopes' = Append(Pop(scopes),
                                   loopEnv(outer, "p", BigArray(eachrun.len)[i + 1]))
               /\ ctrl' = [ctrl EXCEPT ![Len(ctrl)].i = i, ![Len(ctrl)].last = Null]
               /\ lastOp' = Op("eachNext", "p", cur, BigArray(eachrun.len)[i + 1], 0)
               /\ eachrun' = [eachrun EXCEPT !.pc = "body"]
        ELSE /\ scopes' = Pop(scopes)
             /\ ctrl' = SetLast(Pop(ctrl), Top.last)
             /\ lastOp' = Op("eachEnd", "p", outer, Top.last, 0)
             /\ eachrun' = [eachrun EXCEPT !.pc = "read"]
  /\ UNCHANGED <<status, ret, steps, lastCall, asrun>>

\* the last statement  x  and the return of execute
CountUpRead ==
  /\ UNCHANGED <<logic, mem, lexer, run>>
  /\ eachrun.pc = "read"
  /\ status' = "idle"
  /\ ctrl' = << >>
  /\ ret' = evaluate(scopes, cur, Id("x"))
  /\ lastOp' = Op("programEnd", "", 1, Null, 0)
  /\ eachrun' = [eachrun EXCEPT !.pc = "done"]
  /\ UNCHANGED <<scopes, steps, lastCall, asrun>>

NextEach ==
  \/ CountUpAssign
  \/ CountUpEach
  \/ CountUpBody
  \/ CountUpNext
  \/ CountUpRead

SpecEach == InitEach /\ [][NextEach]_vars /\ WF_vars(NextEach)

-----------------------------------------------------------------------------
(* The expression statement  left && right  or  left || right  evaluated  *)
(* in the global scope of a new interpreter, with operands that print,    *)
(* fail or just have a value                                              *)

Call(f, args) == [k |-> "call", callee |-> f, args |-> args]

\* the builtin print with one argument: console.log(x), the value is x
print(console, x) == [v |-> x, console |-> Append(console, x)]

\* an operand: a literal, an identifier, or print(literal)
evaluateOperand(S, e, x, console) ==
  IF x.k = "call" THEN print(console, x.args[1].v)
  ELSE [v |-> evaluateAtom(S, e, x), console |-> console]

\* a faulty variant: the right operand is skipped when the left one decides
evaluateLogicalShortCircuit(S, e, x, console) ==
  LET left == evaluateOperand(S, e, x.left, console)
      right == evaluateOperand(S, e, x.right, left.console)
  IN IF IsError(left.v) THEN left
     ELSE IF x.op = "&&" /\ ~isTruthy(left.v) THEN [left EXCEPT !.v = Bool(FALSE)]
     ELSE IF x.op = "||" /\ isTruthy(left.v) THEN [left EXCEPT !.v = Bool(TRUE)]
     ELSE IF IsError(right.v) THEN right
     ELSE [right EXCEPT !.v = Bool(isTruthy(right.v))]

\* evaluateBinaryExpression for && and ||: left is evaluated, then right,
\* then the switch combines the two truthiness values
evaluateLogical(S, e, x, console) ==
  LET left == evaluateOperand(S, e, x.left, console)
      right == evaluateOperand(S, e, x.right, left.console)
  IN IF IsError(left.v) THEN left
     ELSE IF IsError(right.v) THEN right
     ELSE IF x.op = "&&"
       THEN [right EXCEPT !.v = Bool(isTruthy(left.v) /\ isTruthy(right.v))]
     ELSE [right EXCEPT !.v = Bool(isTruthy(left.v) \/ isTruthy(right.v))]

OperandValues ==
  {Bool(TRUE), Bool(FALSE), Num(0), Num(1), Str(""), Str("a")}

Operands ==
  {Lit(v) : v \in OperandValues}
  \cup {Call("print", <<Lit(v)>>) : v \in OperandValues}
  \cup {Id("y")}

InitLogic ==
  /\ scopes = << [Environment(0) EXCEPT
                    !.variables = [n \in Names |->
                               IF n \in BuiltinNames THEN Builtin ELSE Unbound]] >>
  /\ ctrl = << >>
  /\ status = "idle"
  /\ ret = Null
  /\ steps = 0
  /\ lastCall = NoCall
  /\ lastOp = NoOp
  /\ asrun = [pc |-> "off", n |-> 0, bodyRuns |-> 0, condEvals |-> 0]
  /\ eachrun = EachOff
  /\ \E op \in {"&&", "||"}, left \in Operands, right \in Operands :
       logic = [LogicOff EXCEPT !.pc = "ready", !.x = Bin(op, left, right)]
  /\ mem = MemOff
  /\ lexer = LexerOff
  /\ run = RunOff

\* execute of the expression statement: it returns the value or fails
ExecuteLogical ==
  /\ logic.pc = "ready"
  /\ LET r == evaluateLogical(scopes, 1, logic.x, logic.console) IN
       /\ logic' = [logic EXCEPT !.pc = "done", !.console = r.console,
                                 !.result = r.v]
       /\ IF IsError(r.v)
            THEN /\ ret' = PlutoError(r.v)
                 /\ status' = "error"
          ELSE /\ ret' = r.v
               /\ status' = "idle"
  /\ UNCHANGED <<scopes, ctrl, steps, lastCall, lastOp, asrun, eachrun, mem,
               lexer, run>>

NextLogic == ExecuteLogical

SpecLogic == InitLogic /\ [][NextLogic]_vars

(***************************************************************************)
(* Arrays, records and functions as the objects of the host.  Statements   *)
(* run one per execute call in the global scope of one interpreter:        *)
(*     x = [1, ..., k]                  (the initial state)                *)
(*     v = x[p]  /  v = v[p]            (MemberAccess)                      *)
(*     v = v(...)                       (CallValue)                         *)
(*     v = push(x, 1), v = map(x, v)... (CallArrayBuiltin)                  *)
(* heap[1] is the array bound to x, heap[2] the array that the value of v  *)
(* refers to, if it refers to one: an array no variable refers to any      *)
(* more is not kept.                                                       *)
(***************************************************************************)
MaxOps == 4

Ref(a)      == [t |-> "ref", a |-> a]
HostFn(name) == [t |-> "host", name |-> name]
Compiled(params, body) == [t |-> "compiled", params |-> params, body |-> body]
Joined(es, sep) == [t |-> "str", parts |-> es, sep |-> sep]

\* the methods of Array.prototype and of Object.prototype that the
\* properties drawn below can name
ArrayPrototypeNames  == {"push"}
ObjectPrototypeNames == {"toString"}

isCallable(v) == v.t \in {"builtin", "host", "compiled"}

\* Function.length of a callable
arity(fn) ==
  IF fn.t = "compiled" THEN Len(fn.params)
  ELSE IF fn.t = "host" /\ fn.name = "toString" THEN 0
  ELSE 1

\* object[property] of the host, for an array, a record or a function:
\* an own property first, then the prototype chain
getProperty(heap, object, property) ==
  IF object.t = "ref"
  THEN IF property.t = "num"
       THEN IF property.n >= 0 /\ property.n < Len(heap[object.a])
            THEN heap[object.a][property.n + 1]
            ELSE Undefined
       ELSE IF property.s = "length" THEN Num(Len(heap[object.a]))
       ELSE IF property.s = "constructor" THEN HostFn("Array")
       ELSE IF property.s \in ArrayPrototypeNames \cup ObjectPrototypeNames
            THEN HostFn(property.s)
       ELSE Undefined
  ELSE IF object.t = "rec"
  THEN IF property.t = "str" /\ \E i \in 1..Len(object.keys) : object.keys[i] = property.s
       THEN object.vals[CHOOSE i \in 1..Len(object.keys) : object.keys[i] = property.s]
       ELSE IF property.t = "str" /\ property.s = "constructor" THEN HostFn("Object")
       ELSE IF property.t = "str" /\ property.s \in ObjectPrototypeNames
            THEN HostFn(property.s)
       ELSE Undefined
  ELSE \* a function
       IF property.t = "str" /\ property.s = "constructor" THEN HostFn("Function")
       ELSE IF property.t = "str" /\ property.s = "length" THEN Num(arity(object))
       ELSE IF property.t = "str" /\ property.s \in ObjectPrototypeNames
            THEN HostFn(property.s)
       ELSE Undefined

evaluateMemberExpression(heap, object, property) ==
  getProperty(heap, object, property)

MemberProperties ==
  {Num(i) : i \in (0 - 1)..MaxArr}
    \cup {Str(s) : s \in {"length", "constructor", "push", "toString",
                          "array", "item", "a"}}

hasMembers(v) == v.t \in {"ref", "rec"} \/ isCallable(v)

InitHost ==
  /\ scopes = << [Environment(0) EXCEPT
                    !.variables = [n \in Names |->
                               IF n \in BuiltinNames THEN Builtin ELSE Unbound]] >>
  /\ ctrl = << >>
  /\ status = "idle"
  /\ ret = Null
  /\ steps = 0
  /\ lastCall = NoCall
  /\ lastOp = NoOp
  /\ asrun = [pc |-> "off", n |-> 0, bodyRuns |-> 0, condEvals |-> 0]
  /\ eachrun = EachOff
  /\ logic = LogicOff
  /\ \E es \in ArrayLits :
       mem = [MemOff EXCEPT !.heap = <<es, << >> >>, !.v = Undefined]
  /\ lexer = LexerOff
  /\ run = RunOff

hostFrame == <<scopes, ctrl, status, ret, steps, lastCall, lastOp, asrun,
               eachrun, logic, lexer, run>>

\* what v refers to once it holds value: heap[2] is kept only while v
\* refers to it
keep(heap, value) ==
  IF value.t = "ref" /\ value.a = 2 THEN heap
  ELSE IF value.t = "rec" /\ \E i \in 1..Len(value.vals) : value.vals[i] = Ref(2)
  THEN heap
  ELSE <<heap[1], << >> >>

\*  v = x[p]  or  v = v[p]
MemberAccess(object, property) ==
  /\ mem.n < MaxOps
  /\ hasMembers(object)
  /\ LET value == evaluateMemberExpression(mem.heap, object, property)
     IN mem' = [mem EXCEPT !.v = value, !.heap = keep(mem.heap, value),
                           !.err = Null, !.n = @ + 1,
                           !.last = [NoMemOp EXCEPT !.op = "member",
                                       !.object = object, !.property = property]]
  /\ UNCHANGED hostFrame

\* the texts that  v("...", ..., "...")  hands to the Function constructor:
\* parameter names, then the body
FunctionTexts == {<<"e", "i", "a", "a.length = 0">>, <<"a", "a.length = 0">>}

TypeError(m)   == Thrown(m, "TypeError")
SyntaxError(m) == Thrown(m, "SyntaxError")

Done(heap, v)   == [heap |-> heap, v |-> v, err |-> Null]
Failed(heap, e) == [heap |-> heap, v |-> Undefined, err |-> e]

\* the argument bound to parameter  a  of a compiled function
argumentA(fn, args) ==
  IF \E i \in 1..Len(fn.params) : fn.params[i] = "a" /\ i <= Len(args)
  THEN args[CHOOSE i \in 1..Len(fn.params) : fn.params[i] = "a"]
  ELSE Undefined

\* fn(...args) of the host, this undefined: the heap and the value after
\* it, or the error thrown
callFn(heap, fn, args) ==
  IF fn.t = "builtin"
  THEN Done(heap, abs(args[1]))
  ELSE IF fn.t = "compiled"
  THEN \* the body  a.length = 0
       LET a == argumentA(fn, args)
       IN IF a.t \in {"undefined", "null"}
          THEN Failed(heap, TypeError("Cannot set properties of undefined"))
          ELSE IF a.t = "ref"
          THEN Done([heap EXCEPT ![a.a] = << >>], Undefined)
          ELSE Done(heap, Undefined)
  ELSE IF fn.t = "host" /\ fn.name = "Function"
  THEN IF \A i \in 1..Len(args) : args[i].t = "str"
       THEN Done(heap, Compiled([i \in 1..(Len(args) - 1) |-> args[i].s],
                                args[Len(args)].s))
       ELSE Failed(heap, SyntaxError("Unexpected number"))
  ELSE IF fn.t = "host" /\ fn.name = "toString"
  THEN Done(heap, Str("[object Undefined]"))
  ELSE IF fn.t = "host"
  THEN Failed(heap, TypeError("Cannot convert undefined or null to object"))
  ELSE Failed(heap, TypeError("is not a function"))

\* Array.prototype.map from index i on: len is the length read at the start
RECURSIVE mapFrom(_, _, _, _, _, _)
mapFrom(heap, a, fn, i, len, acc) ==
  IF i >= len THEN [heap |-> heap, v |-> acc, err |-> Null]
  ELSE IF i >= Len(heap[a])
  THEN mapFrom(heap, a, fn, i + 1, len, Append(acc, Undefined))
  ELSE LET r == callFn(heap, fn, <<heap[a][i + 1], Num(i), Ref(a)>>)
       IN IF r.err # Null THEN r
          ELSE mapFrom(r.heap, a, fn, i + 1, len, Append(acc, r.v))

RECURSIVE filterFrom(_, _, _, _, _, _)
filterFrom(heap, a, fn, i, len, acc) ==
  IF i >= len THEN [heap |-> heap, v |-> acc, err |-> Null]
  ELSE IF i >= Len(heap[a])
  THEN filterFrom(heap, a, fn, i + 1, len, acc)
  ELSE LET kValue == heap[a][i + 1]
           r == callFn(heap, fn, <<kValue, Num(i), Ref(a)>>)
       IN IF r.err # Null THEN r
          ELSE filterFrom(r.heap, a, fn, i + 1, len,
                          IF isTruthy(r.v) THEN Append(acc, kValue) ELSE acc)

RECURSIVE reduceFrom(_, _, _, _, _, _)
reduceFrom(heap, a, fn, i, len, acc) ==
  IF i >= len THEN [heap |-> heap, v |-> acc, err |-> Null]
  ELSE IF i >= Len(heap[a])
  THEN reduceFrom(heap, a, fn, i + 1, len, acc)
  ELSE LET r == callFn(heap, fn, <<acc, heap[a][i + 1], Num(i), Ref(a)>>)
       IN IF r.err # Null THEN r
          ELSE reduceFrom(r.heap, a, fn, i + 1, len, r.v)

\* a new array object holding es, which the result refers to
newArray(heap, es) == Done(<<heap[1], es>>, Ref(2))

spread(heap, arr) == heap[arr.a]      \* [...arr]

reversed(es) == [i \in 1..Len(es) |-> es[Len(es) + 1 - i]]

\* Array.prototype.sort without a comparator orders by the decimal text of
\* the elements, which for the one-digit numbers of ArrayLits is their order
sorted(es) == SortSeq(es, LAMBDA p, q : p.n < q.n)

sliced(es, start, end) ==
  LET to == IF end < Len(es) THEN end ELSE Len(es)
  IN IF start >= to THEN << >> ELSE SubSeq(es, start + 1, to)

ArrayBuiltinNames ==
  {"push", "pop", "slice", "map", "filter", "reduce", "join", "reverse", "sort"}

push(heap, arr, item) == newArray(heap, Append(spread(heap, arr), item))

pop(heap, arr) ==
  LET copy == spread(heap, arr)
      item == IF Len(copy) = 0 THEN Undefined ELSE copy[Len(copy)]
      rest == IF Len(copy) = 0 THEN << >> ELSE SubSeq(copy, 1, Len(copy) - 1)
  IN Done(<<heap[1], rest>>, Rec(<<"array", "item">>, <<Ref(2), item>>))

\* builtins[name](arr, ...args) on the heap
arrayBuiltin(name, heap, arr, args) ==
  IF name = "push" THEN push(heap, arr, args[1])
  ELSE IF name = "pop" THEN pop(heap, arr)
  ELSE IF name = "slice" THEN newArray(heap, sliced(heap[arr.a], args[1].n, args[2].n))
  ELSE IF name = "reverse" THEN newArray(heap, reversed(spread(heap, arr)))
  ELSE IF name = "sort" THEN newArray(heap, sorted(spread(heap, arr)))
  ELSE IF name = "join" THEN Done(heap, Joined(heap[arr.a], ","))
  ELSE IF ~isCallable(args[1])
  THEN Failed(heap, TypeError("is not a function"))
  ELSE IF name = "map"
  THEN LET r == mapFrom(heap, arr.a, args[1], 0, Len(heap[arr.a]), << >>)
       IN IF r.err # Null THEN r ELSE newArray(r.heap, r.v)
  ELSE IF name = "filter"
  THEN LET r == filterFrom(heap, arr.a, args[1], 0, Len(heap[arr.a]), << >>)
       IN IF r.err # Null THEN r ELSE newArray(r.heap, r.v)
  ELSE reduceFrom(heap, arr.a, args[1], 0, Len(heap[arr.a]), args[2])

\* the arguments after the array in the calls generated for a builtin
BuiltinArgs(name) ==
  IF name = "push" THEN {<<Num(1)>>}
  ELSE IF name = "slice" THEN {<<Num(i), Num(j)>> : i \in 0..1, j \in 1..MaxArr}
  ELSE IF name \in {"map", "filter"} THEN {<<Builtin>>, <<mem.v>>}
  ELSE IF name = "reduce" THEN {<<Builtin, Num(0)>>, <<mem.v, Num(0)>>}
  ELSE {<< >>}

\* the host functions whose calls are generated
called(v) == ~(v.t = "host" /\ v.name \in {"Array", "Object"})

\*  v = name(x, ...)
CallArrayBuiltin(name, args) ==
  /\ mem.n < MaxOps
  /\ \A i \in 1..Len(args) : called(args[i])
  /\ LET r == arrayBuiltin(name, mem.heap, Ref(1), args)
     IN mem' = [mem EXCEPT
                  !.heap = IF r.err # Null THEN r.heap ELSE keep(r.heap, r.v),
                  !.v = IF r.err # Null THEN mem.v ELSE r.v,
                  !.err = r.err,
                  !.n = @ + 1,
                  !.last = [NoMemOp EXCEPT !.op = "builtin", !.name = name,
                                           !.object = Ref(1), !.args = args]]
  /\ UNCHANGED hostFrame

\*  v = v(...)
CallValue(args) ==
  /\ mem.n < MaxOps
  /\ called(mem.v)
  /\ mem.v.t # "builtin"
  /\ (mem.v.t = "host" /\ mem.v.name = "Function") <=> args # <<Ref(1)>>
  /\ LET r == IF isCallable(mem.v) THEN callFn(mem.heap, mem.v, args)
              ELSE Failed(mem.heap, Thrown("is not a function", "Error"))
     IN mem' = [mem EXCEPT
                  !.heap = IF r.err # Null THEN r.heap ELSE keep(r.heap, r.v),
                  !.v = IF r.err # Null THEN mem.v ELSE r.v,
                  !.err = r.err,
                  !.n = @ + 1,
                  !.last = [NoMemOp EXCEPT !.op = "call", !.object = mem.v,
                                           !.args = args]]
  /\ UNCHANGED hostFrame

NextHost ==
  \/ \E property \in MemberProperties : MemberAccess(Ref(1), property)
  \/ \E property \in MemberProperties : MemberAccess(mem.v, property)
  \/ \E name \in ArrayBuiltinNames : \E args \in BuiltinArgs(name) :
       CallArrayBuiltin(name, args)
  \/ \E args \in {<<Ref(1)>>} \cup {[i \in 1..Len(t) |-> Str(t[i])] : t \in FunctionTexts} :
       CallValue(args)

SpecHost == InitHost /\ [][NextHost]_vars

(***************************************************************************)
(* The scanner (class Lexer).  A text is the sequence of its characters;   *)
(* one step of the model is one iteration of the loop of tokenize.         *)
(***************************************************************************)
Token(type, value, line, column) ==
  [type |-> type, value |-> value, line |-> line, column |-> column]

KEYWORDS ==
  (<<"c", "h", "e", "c", "k">> :> "CHECK")
  @@ (<<"e", "l", "s", "e">> :> "ELSE")
  @@ (<<"e", "a", "c", "h">> :> "EACH")
  @@ (<<"a", "s">> :> "AS")
  @@ (<<"a", "c", "t", "i", "o", "n">> :> "ACTION")
  @@ (<<"e", "n", "d">> :> "END")
  @@ (<<"i", "n">> :> "IN")
  @@ (<<"t", "r", "u", "e">> :> "BOOLEAN")
  @@ (<<"f", "a", "l", "s", "e">> :> "BOOLEAN")

\* what a plain object of the host inherits: KEYWORDS[id] finds these too
ObjectPrototype ==
  (<<"c", "o", "n", "s", "t", "r", "u", "c", "t", "o", "r">> :> "Object.prototype.constructor")
  @@ (<<"h", "a", "s", "O", "w", "n", "P", "r", "o", "p", "e", "r", "t", "y">> :> "Object.prototype.hasOwnProperty")
  @@ (<<"i", "s", "P", "r", "o", "t", "o", "t", "y", "p", "e", "O", "f">> :> "Object.prototype.isPrototypeOf")
  @@ (<<"p", "r", "o", "p", "e", "r", "t", "y", "I", "s", "E", "n", "u", "m", "e", "r", "a", "b", "l", "e">> :> "Object.prototype.propertyIsEnumerable")
  @@ (<<"t", "o", "L", "o", "c", "a", "l", "e", "S", "t", "r", "i", "n", "g">> :> "Object.prototype.toLocaleString")
  @@ (<<"t", "o", "S", "t", "r", "i", "n", "g">> :> "Object.prototype.toString")
  @@ (<<"v", "a", "l", "u", "e", "O", "f">> :> "Object.prototype.valueOf")
  @@ (<<"_", "_", "p", "r", "o", "t", "o", "_", "_">> :> "Object.prototype.__proto__")
  @@ (<<"_", "_", "d", "e", "f", "i", "n", "e", "G", "e", "t", "t", "e", "r", "_", "_">> :> "Object.prototype.__defineGetter__")
  @@ (<<"_", "_", "d", "e", "f", "i", "n", "e", "S", "e", "t", "t", "e", "r", "_", "_">> :> "Object.prototype.__defineSetter__")
  @@ (<<"_", "_", "l", "o", "o", "k", "u", "p", "G", "e", "t", "t", "e", "r", "_", "_">> :> "Object.prototype.__lookupGetter__")
  @@ (<<"_", "_", "l", "o", "o", "k", "u", "p", "S", "e", "t", "t", "e", "r", "_", "_">> :> "Object.prototype.__lookupSetter__")

\* new Lexer(input)
Lexer(input) == [LexerOff EXCEPT !.input = input, !.pc = "scan"]

nullChar == ""          \* peek() past the end
undefinedChar == "undefined"    \* this.input[position] past the end

Digits  == {"0", "1", "2", "3", "4", "5", "6", "7", "8", "9"}
Letters ==
  {"a", "b", "c", "d", "e", "f", "g", "h", "i", "j", "k", "l", "m",
   "n", "o", "p", "q", "r", "s", "t", "u", "v", "w", "x", "y", "z",
   "A", "B", "C", "D", "E", "F", "G", "H", "I", "J", "K", "L", "M",
   "N", "O", "P", "Q", "R", "S", "T", "U", "V", "W", "X", "Y", "Z",
   "_"}

peek(L, offset) ==
  LET pos == L.position + offset
  IN IF pos < Len(L.input) THEN L.input[pos + 1] ELSE nullChar

charAt(L) ==
  IF L.position < Len(L.input) THEN L.input[L.position + 1] ELSE undefinedChar

\* a faulty variant: the column runs on after a newline
advanceKeepsColumn(L) ==
  IF charAt(L) = "\n"
  THEN [L EXCEPT !.position = @ + 1, !.line = @ + 1, !.column = @ + 1]
  ELSE [L EXCEPT !.position = @ + 1, !.column = @ + 1]

advance(L) ==
  IF charAt(L) = "\n"
  THEN [L EXCEPT !.position = @ + 1, !.line = @ + 1, !.column = 1]
  ELSE [L EXCEPT !.position = @ + 1, !.column = @ + 1]

RECURSIVE skipWhitespace(_)
skipWhitespace(L) ==
  IF peek(L, 0) \in {" ", "\t", "\r"} THEN skipWhitespace(advance(L)) ELSE L

RECURSIVE skipComment(_)
skipComment(L) ==
  IF peek(L, 0) # nullChar /\ peek(L, 0) # "\n" THEN skipComment(advance(L)) ELSE L

\* the value of a run of digits
RECURSIVE digitsValue(_)
digitsValue(ds) ==
  IF ds = << >> THEN 0
  ELSE 10 * digitsValue(SubSeq(ds, 1, Len(ds) - 1))
       + (CHOOSE k \in 0..9 : ToString(k) = ds[Len(ds)])

RECURSIVE dropZeros(_)
dropZeros(ds) ==
  IF ds # << >> /\ ds[Len(ds)] = "0" THEN dropZeros(SubSeq(ds, 1, Len(ds) - 1)) ELSE ds

\* parseFloat of digits with at most one point: the whole part, and the
\* fraction digits where there are any other than zeros
parseFloat(num) ==
  LET dot   == IF \E i \in 1..Len(num) : num[i] = "."
               THEN CHOOSE i \in 1..Len(num) : num[i] = "." ELSE Len(num) + 1
      whole == digitsValue(SubSeq(num, 1, dot - 1))
      frac  == dropZeros(SubSeq(num, dot + 1, Len(num)))
  IN IF frac = << >> THEN [t |-> "num", n |-> whole]
     ELSE [t |-> "num", n |-> whole, frac |-> frac]

RECURSIVE readNumberFrom(_, _, _)
readNumberFrom(L, num, hasDecimal) ==
  IF peek(L, 0) \in Digits \/ (peek(L, 0) = "." /\ ~hasDecimal)
  THEN readNumberFrom(advance(L), Append(num, peek(L, 0)),
                      hasDecimal \/ peek(L, 0) = ".")
  ELSE [L |-> L, text |-> num]

readNumber(L) ==
  LET r == readNumberFrom(L, << >>, FALSE)
  IN [L |-> r.L, err |-> Null,
      token |-> Token("NUMBER", parseFloat(r.text), L.line, L.column)]

escape(next) ==
  IF next = "n" THEN "\n" ELSE IF next = "t" THEN "\t"
  ELSE IF next = "r" THEN "\r" ELSE next

RECURSIVE readStringFrom(_, _, _)
readStringFrom(L, quote, str) ==
  IF peek(L, 0) # nullChar /\ peek(L, 0) # quote
  THEN IF peek(L, 0) = "\\"
       THEN LET L1 == advance(L)
            IN readStringFrom(advance(L1), quote, Append(str, escape(charAt(L1))))
       ELSE readStringFrom(advance(L), quote, Append(str, peek(L, 0)))
  ELSE [L |-> L, text |-> str]

readString(L) ==
  LET quote == charAt(L)
      r == readStringFrom(advance(L), quote, << >>)
  IN IF peek(r.L, 0) # quote
     THEN [L |-> r.L, token |-> Null,
           err |-> Thrown(<<"Unterminated string at line ", L.line,
                            ", column ", L.column>>, "Error")]
     ELSE [L |-> advance(r.L), err |-> Null,
           token |-> Token("STRING", Str(r.text),
                           L.line, L.column)]

RECURSIVE readIdentifierFrom(_, _)
readIdentifierFrom(L, id) ==
  IF peek(L, 0) \in Letters \cup Digits
  THEN readIdentifierFrom(advance(L), Append(id, peek(L, 0)))
  ELSE [L |-> L, text |-> id]

\* KEYWORDS[id]: an own property, or one inherited from Object.prototype
keywordOf(id) ==
  IF id \in DOMAIN KEYWORDS THEN KEYWORDS[id]
  ELSE IF id \in DOMAIN ObjectPrototype THEN ObjectPrototype[id]
  ELSE "undefined"

readIdentifier(L) ==
  LET r == readIdentifierFrom(L, << >>)
      id == r.text
      type == IF keywordOf(id) # "undefined" THEN keywordOf(id) ELSE "IDENTIFIER"
      value == IF type = "BOOLEAN"
               THEN [t |-> "bool", b |-> (id = <<"t", "r", "u", "e">>)]
               ELSE [t |-> "id", chars |-> id]
  IN [L |-> r.L, err |-> Null, token |-> Token(type, value, L.line, L.column)]

twoChar ==
  ("=" :> "EQUAL")
  @@ ("!" :> "NOT_EQUAL")
  @@ ("<" :> "LESS_EQUAL")
  @@ (">" :> "GREATER_EQUAL")

singleChar ==
  ("+" :> "PLUS")
  @@ ("-" :> "MINUS")
  @@ ("*" :> "MULTIPLY")
  @@ ("/" :> "DIVIDE")
  @@ ("%" :> "MODULO")
  @@ ("=" :> "ASSIGN")
  @@ ("<" :> "LESS_THAN")
  @@ (">" :> "GREATER_THAN")
  @@ ("!" :> "NOT")
  @@ ("(" :> "LPAREN")
  @@ (")" :> "RPAREN")
  @@ ("{" :> "LBRACE")
  @@ ("}" :> "RBRACE")
  @@ ("[" :> "LBRACKET")
  @@ ("]" :> "RBRACKET")
  @@ ("," :> "COMMA")
  @@ ("." :> "DOT")

operatorText(text) == [t |-> "op", chars |-> text]

\* one iteration of the loop of tokenize, at a position inside the input
tokenizeStep(L0) ==
  LET L == skipWhitespace(L0)
      char == peek(L, 0)
      emit(n, type, text) ==
        [L |-> IF n = 2 THEN advance(advance(L)) ELSE advance(L), err |-> Null,
         token |-> Token(type, operatorText(text), L.line, L.column)]
  IN IF L.position >= Len(L.input) THEN [L |-> L, token |-> Null, err |-> Null]
     ELSE IF char = "/" /\ peek(L, 1) = "/"
     THEN [L |-> skipComment(L), token |-> Null, err |-> Null]
     ELSE IF char = "\n" THEN emit(1, "NEWLINE", <<"\n">>)
     ELSE IF char \in Digits THEN readNumber(L)
     ELSE IF char = "\"" \/ char = "'" THEN readString(L)
     ELSE IF char \in Letters THEN readIdentifier(L)
     ELSE IF char \in DOMAIN twoChar /\ peek(L, 1) = "="
     THEN emit(2, twoChar[char], <<char, "=">>)
     ELSE IF char = "&" /\ peek(L, 1) = "&" THEN emit(2, "AND", <<"&", "&">>)
     ELSE IF char = "|" /\ peek(L, 1) = "|" THEN emit(2, "OR", <<"|", "|">>)
     ELSE IF char \in DOMAIN singleChar THEN emit(1, singleChar[char], <<char>>)
     ELSE [L |-> L, token |-> Null,
           err |-> Thrown(<<"Unexpected character '", char, "' at line ",
                            L.line, ", column ", L.column>>, "Error")]

\* the pieces the texts to scan are put together from: the keywords, names
\* of builtins, other words, numbers, blanks, operators, a comment opener,
\* a string, a lonely quote and a character of no rule
Lexicon ==
  {<<"c", "h", "e", "c", "k">>, <<"e", "l", "s", "e">>, <<"e", "a", "c", "h">>, <<"a", "s">>,
   <<"a", "c", "t", "i", "o", "n">>, <<"e", "n", "d">>, <<"i", "n">>, <<"t", "r", "u", "e">>,
   <<"f", "a", "l", "s", "e">>, <<"p", "r", "i", "n", "t">>, <<"t", "o", "S", "t", "r", "i", "n", "g">>, <<"t", "o", "N", "u", "m", "b", "e", "r">>,
   <<"l", "e", "n", "g", "t", "h">>, <<"c", "o", "n", "s", "t", "r", "u", "c", "t", "o", "r">>, <<"v", "a", "l", "u", "e", "O", "f">>, <<"_", "_", "p", "r", "o", "t", "o", "_", "_">>,
   <<"x">>, <<"_", "y">>, <<"s">>, <<"4">>,
   <<"1", "0">>, <<".", "5">>, <<" ">>, <<"\n">>,
   <<"(">>, <<")">>, <<"=">>, <<"=", "=">>,
   <<"+">>, <<"&", "&">>, <<"/", "/">>, <<"\"", "a", "\"">>,
   <<"'">>, <<"#">>}

MaxWords == 3

RECURSIVE Texts(_)
Texts(k) ==
  IF k = 0 THEN {<< >>}
  ELSE Texts(k - 1) \cup {t \o w : t \in Texts(k - 1), w \in Lexicon}

InitLexer ==
  /\ scopes = << [Environment(0) EXCEPT
                    !.variables = [n \in Names |->
                               IF n \in BuiltinNames THEN Builtin ELSE Unbound]] >>
  /\ ctrl = << >>
  /\ status = "idle"
  /\ ret = Null
  /\ steps = 0
  /\ lastCall = NoCall
  /\ lastOp = NoOp
  /\ asrun = [pc |-> "off", n |-> 0, bodyRuns |-> 0, condEvals |-> 0]
  /\ eachrun = EachOff
  /\ logic = LogicOff
  /\ mem = MemOff
  /\ run = RunOff
  /\ \E input \in Texts(MaxWords) : lexer = Lexer(input)

lexerFrame == <<scopes, ctrl, status, ret, steps, lastCall, lastOp, asrun,
                eachrun, logic, mem, run>>

\* the Lexer after an iteration with outcome r
scanned(r) ==
  IF r.err # Null THEN [r.L EXCEPT !.pc = "error", !.err = r.err]
  ELSE IF r.token # Null THEN [r.L EXCEPT !.tokens = Append(@, r.token)]
  ELSE r.L

\* one iteration of  while (this.position < this.input.length)
Tokenize ==
  /\ lexer.pc = "scan"
  /\ lexer.position < Len(lexer.input)
  /\ lexer' = scanned(tokenizeStep(lexer))
  /\ UNCHANGED lexerFrame

\* the loop is left: the EOF token, and tokenize returns
TokenizeEnd ==
  /\ lexer.pc = "scan"
  /\ lexer.position >= Len(lexer.input)
  /\ lexer' = [lexer EXCEPT
                 !.tokens = Append(@, Token("EOF", Null, lexer.line, lexer.column)),
                 !.pc = "done"]
  /\ UNCHANGED lexerFrame

NextLexer == Tokenize \/ TokenizeEnd

SpecLexer == InitLexer /\ [][NextLexer]_vars

\* pieces of texts that reach every branch of the scanner's loop
Pieces ==
  {<<"x">>, <<"4">>, <<".">>, <<" ">>, <<"\n">>, <<"=">>, <<"&", "&">>,
   <<"&">>, <<"/", "/">>, <<"\"">>, <<"'">>, <<"\\", "n">>, <<"#">>}

RECURSIVE PieceTexts(_)
PieceTexts(k) ==
  IF k = 0 THEN {<< >>}
  ELSE PieceTexts(k - 1) \cup {t \o w : t \in PieceTexts(k - 1), w \in Pieces}

InitTokenize ==
  /\ scopes = << [Environment(0) EXCEPT
                    !.variables = [n \in Names |->
                               IF n \in BuiltinNames THEN Builtin ELSE Unbound]] >>
  /\ ctrl = << >>
  /\ status = "idle"
  /\ ret = Null
  /\ steps = 0
  /\ lastCall = NoCall
  /\ lastOp = NoOp
  /\ asrun = [pc |-> "off", n |-> 0, bodyRuns |-> 0, condEvals |-> 0]
  /\ eachrun = EachOff
  /\ logic = LogicOff
  /\ mem = MemOff
  /\ run = RunOff
  /\ \E input \in PieceTexts(MaxWords) : lexer = Lexer(input)

\* tokenize runs on once it is called: its loop is not held up
SpecTokenize == InitTokenize /\ [][NextLexer]_vars /\ WF_vars(NextLexer)

(***************************************************************************)
(* The parser (class Parser): recursive descent over the tokens without    *)
(* the NEWLINE tokens.  T is this.tokens, p is this.position; a parse      *)
(* function yields the node and the position after it, or the error thrown.*)
(***************************************************************************)
Program(statements) == [type |-> "Program", statements |-> statements]
NodeDeclaration(name, value) ==
  [type |-> "NodeDeclaration", name |-> name, value |-> value]
ActionDeclaration(name, params, body) ==
  [type |-> "ActionDeclaration", name |-> name, params |-> params, body |-> body]
CheckStatement(condition, consequent, alternate) ==
  [type |-> "CheckStatement", condition |-> condition,
   consequent |-> consequent, alternate |-> alternate]
EachStatement(variable, iterable, body) ==
  [type |-> "EachStatement", variable |-> variable, iterable |-> iterable,
   body |-> body]
AsStatement(condition, body) ==
  [type |-> "AsStatement", condition |-> condition, body |-> body]
BlockStatement(statements) == [type |-> "BlockStatement", statements |-> statements]
BinaryExpression(operator, left, right) ==
  [type |-> "BinaryExpression", operator |-> operator, left |-> left, right |-> right]
UnaryExpression(operator, argument) ==
  [type |-> "UnaryExpression", operator |-> operator, argument |-> argument]
CallExpression(callee, args) ==
  [type |-> "CallExpression", callee |-> callee, args |-> args]
MemberExpression(object, property, computed) ==
  [type |-> "MemberExpression", object |-> object, property |-> property,
   computed |-> computed]
ArrayExpression(elements) == [type |-> "ArrayExpression", elements |-> elements]
Identifier(name) == [type |-> "Identifier", name |-> name]
Literal(value) == [type |-> "Literal", value |-> value]

\* new Parser(tokens)
withoutNewlines(tokens) == SelectSeq(tokens, LAMBDA t : t.type # "NEWLINE")

Parsed(node, p) == [node |-> node, p |-> p, err |-> Null]
ParseError(p, msg) == [node |-> Null, p |-> p, err |-> Thrown(msg, "Error")]

typeAt(T, p) == IF p < Len(T) THEN T[p + 1].type ELSE "undefined"
lineAt(T, p) == IF p < Len(T) THEN T[p + 1].line ELSE 0     \* 0: undefined
match(T, p, types) == p < Len(T) /\ T[p + 1].type \in types

\* a faulty variant: the token after the expected one is consumed as well
expectTwo(T, p, type) ==
  IF typeAt(T, p) # type
  THEN ParseError(p, <<"Expected ", type, " but got ", typeAt(T, p),
                      " at line ", lineAt(T, p)>>)
  ELSE Parsed(T[p + 1], p + 2)

\* expect(type): the token and the position after it, or the error
expect(T, p, type) ==
  IF typeAt(T, p) # type
  THEN ParseError(p, <<"Expected ", type, " but got ", typeAt(T, p),
                      " at line ", lineAt(T, p)>>)
  ELSE Parsed(T[p + 1], p + 1)

\* this.name(...): a call of one parse function by another
RECURSIVE this(_, _, _, _, _)
\* a faulty variant: the additive operators bind tighter than the
\* multiplicative ones
LevelTokensSwapped ==
  << {"OR"}, {"AND"}, {"EQUAL", "NOT_EQUAL"},
     {"LESS_THAN", "GREATER_THAN", "LESS_EQUAL", "GREATER_EQUAL"},
     {"MULTIPLY", "DIVIDE", "MODULO"}, {"PLUS", "MINUS"} >>

\* the operator tokens of the levels of the ladder, loosest first
LevelTokens ==
  << {"OR"}, {"AND"}, {"EQUAL", "NOT_EQUAL"},
     {"LESS_THAN", "GREATER_THAN", "LESS_EQUAL", "GREATER_EQUAL"},
     {"PLUS", "MINUS"}, {"MULTIPLY", "DIVIDE", "MODULO"} >>

\* do { list.push(parseExpression()); skip a comma } while (!match(close))
parseListFrom(T, p, close, acc) ==
  LET x == this("parseExpression", T, p, Null, Null)
  IN IF x.err # Null THEN x
     ELSE LET q == IF match(T, x.p, {"COMMA"}) THEN x.p + 1 ELSE x.p
          IN IF match(T, q, {close}) THEN Parsed(Append(acc, x.node), q)
             ELSE this("parseListFrom", T, q, close, Append(acc, x.node))

\* the elements between an opening token, already consumed, and close
parseList(T, p, close) ==
  LET list == IF match(T, p, {close}) THEN Parsed(<< >>, p)
              ELSE this("parseListFrom", T, p, close, << >>)
  IN IF list.err # Null THEN list
     ELSE LET c == expect(T, list.p, close)
          IN IF c.err # Null THEN c ELSE Parsed(list.node, c.p)

parsePrimary(T, p) ==
  IF match(T, p, {"NUMBER", "STRING", "BOOLEAN"}) THEN Parsed(Literal(T[p + 1].value), p + 1)
  ELSE IF match(T, p, {"IDENTIFIER"}) THEN Parsed(Identifier(T[p + 1].value), p + 1)
  ELSE IF match(T, p, {"LBRACKET"})
  THEN LET elements == this("parseList", T, p + 1, "RBRACKET", Null)
       IN IF elements.err # Null THEN elements
          ELSE Parsed(ArrayExpression(elements.node), elements.p)
  ELSE IF match(T, p, {"LPAREN"})
  THEN LET expr == this("parseExpression", T, p + 1, Null, Null)
       IN IF expr.err # Null THEN expr
          ELSE LET c == expect(T, expr.p, "RPAREN")
               IN IF c.err # Null THEN c ELSE Parsed(expr.node, c.p)
  ELSE ParseError(p, <<"Unexpected token ", typeAt(T, p), " at line ", lineAt(T, p)>>)

\* the loop of parsePostfix
postfixFrom(T, p, expr) ==
  IF match(T, p, {"LPAREN"})
  THEN LET args == this("parseList", T, p + 1, "RPAREN", Null)
       IN IF args.err # Null THEN args
          ELSE this("postfixFrom", T, args.p, CallExpression(expr, args.node), Null)
  ELSE IF match(T, p, {"LBRACKET"})
  THEN LET index == this("parseExpression", T, p + 1, Null, Null)
       IN IF index.err # Null THEN index
          ELSE LET c == expect(T, index.p, "RBRACKET")
               IN IF c.err # Null THEN c
                  ELSE this("postfixFrom", T, c.p, MemberExpression(expr, index.node, TRUE), Null)
  ELSE IF match(T, p, {"DOT"})
  THEN LET property == expect(T, p + 1, "IDENTIFIER")
       IN IF property.err # Null THEN property
          ELSE this("postfixFrom", T, property.p, MemberExpression(expr, Identifier(property.node.value), FALSE), Null)
  ELSE Parsed(expr, p)

parsePostfix(T, p) ==
  LET expr == this("parsePrimary", T, p, Null, Null)
  IN IF expr.err # Null THEN expr ELSE this("postfixFrom", T, expr.p, expr.node, Null)

parseUnary(T, p) ==
  IF match(T, p, {"NOT", "MINUS"})
  THEN LET argument == this("parseUnary", T, p + 1, Null, Null)
       IN IF argument.err # Null THEN argument
          ELSE Parsed(UnaryExpression(T[p + 1].value, argument.node), argument.p)
  ELSE this("parsePostfix", T, p, Null, Null)

\* the loop of a level:  while (match(its operators)) ...
binaryFrom(level, T, p, left) ==
  IF match(T, p, LevelTokens[level])
  THEN LET right == this("parseLevel", T, p + 1, level + 1, Null)
       IN IF right.err # Null THEN right
          ELSE this("binaryFrom", T, right.p, level, BinaryExpression(T[p + 1].value, left, right.node))
  ELSE Parsed(left, p)

\* levels 1 to 6 are parseLogicalOr, parseLogicalAnd, parseEquality,
\* parseRelational, parseAdditive and parseMultiplicative
parseLevel(level, T, p) ==
  IF level > Len(LevelTokens) THEN this("parseUnary", T, p, Null, Null)
  ELSE LET left == this("parseLevel", T, p, level + 1, Null)
       IN IF left.err # Null THEN left ELSE this("binaryFrom", T, left.p, level, left.node)

parseLogicalOr(T, p)      == this("parseLevel", T, p, 1, Null)

parseExpression(T, p) == this("parseLogicalOr", T, p, Null, Null)

parseExpressionStatement(T, p) ==
  IF match(T, p, {"IDENTIFIER"}) /\ typeAt(T, p + 1) = "ASSIGN"
  THEN LET value == this("parseExpression", T, p + 2, Null, Null)
       IN IF value.err # Null THEN value
          ELSE Parsed(NodeDeclaration(T[p + 1].value, value.node), value.p)
  ELSE this("parseExpression", T, p, Null, Null)

\* while (!match(END, ELSE, EOF)) statements.push(parseStatement())
parseBlockFrom(T, p, statements) ==
  IF match(T, p, {"END", "ELSE", "EOF"}) THEN Parsed(BlockStatement(statements), p)
  ELSE LET s == this("parseStatement", T, p, Null, Null)
       IN IF s.err # Null THEN s
          ELSE this("parseBlockFrom", T, s.p, Append(statements, s.node), Null)

parseBlock(T, p) == this("parseBlockFrom", T, p, << >>, Null)

\* expect(first), expect(LPAREN), a condition, expect(RPAREN)
parseHead(T, p, first) ==
  LET k == expect(T, p, first)
  IN IF k.err # Null THEN k
     ELSE LET l == expect(T, k.p, "LPAREN")
          IN IF l.err # Null THEN l
             ELSE LET condition == this("parseExpression", T, l.p, Null, Null)
                  IN IF condition.err # Null THEN condition
                     ELSE LET r == expect(T, condition.p, "RPAREN")
                          IN IF r.err # Null THEN r
                             ELSE Parsed(condition.node, r.p)

\* a faulty variant: the body may be left open at the end of the text
parseAsStatementOpen(T, p) ==
  LET condition == this("parseHead", T, p, "AS", Null)
  IN IF condition.err # Null THEN condition
     ELSE LET body == this("parseBlock", T, condition.p, Null, Null)
          IN IF body.err # Null THEN body
             ELSE LET e == IF match(T, body.p, {"EOF"}) THEN Parsed(Null, body.p)
                           ELSE expect(T, body.p, "END")
                  IN IF e.err # Null THEN e
                     ELSE Parsed(AsStatement(condition.node, body.node), e.p)

parseAsStatement(T, p) ==
  LET condition == this("parseHead", T, p, "AS", Null)
  IN IF condition.err # Null THEN condition
     ELSE LET body == this("parseBlock", T, condition.p, Null, Null)
          IN IF body.err # Null THEN body
             ELSE LET e == expect(T, body.p, "END")
                  IN IF e.err # Null THEN e
                     ELSE Parsed(AsStatement(condition.node, body.node), e.p)

parseCheckStatement(T, p) ==
  LET condition == this("parseHead", T, p, "CHECK", Null)
  IN IF condition.err # Null THEN condition
     ELSE LET consequent == this("parseBlock", T, condition.p, Null, Null)
          IN IF consequent.err # Null THEN consequent
             ELSE LET alternate ==
                        IF match(T, consequent.p, {"ELSE"})
                        THEN this("parseBlock", T, consequent.p + 1, Null, Null)
                        ELSE Parsed(Null, consequent.p)
                  IN IF alternate.err # Null THEN alternate
                     ELSE LET e == expect(T, alternate.p, "END")
                          IN IF e.err # Null THEN e
                             ELSE Parsed(CheckStatement(condition.node,
                                           consequent.node, alternate.node), e.p)

parseEachStatement(T, p) ==
  LET k == expect(T, p, "EACH")
      l == expect(T, k.p, "LPAREN")
      variable == expect(T, l.p, "IDENTIFIER")
      inToken == expect(T, variable.p, "IN")
  IN IF k.err # Null THEN k
     ELSE IF l.err # Null THEN l
     ELSE IF variable.err # Null THEN variable
     ELSE IF inToken.err # Null THEN inToken
     ELSE LET iterable == this("parseExpression", T, inToken.p, Null, Null)
          IN IF iterable.err # Null THEN iterable
             ELSE LET r == expect(T, iterable.p, "RPAREN")
                  IN IF r.err # Null THEN r
                     ELSE LET body == this("parseBlock", T, r.p, Null, Null)
                          IN IF body.err # Null THEN body
                             ELSE LET e == expect(T, body.p, "END")
                                  IN IF e.err # Null THEN e
                                     ELSE Parsed(EachStatement(variable.node.value,
                                                   iterable.node, body.node), e.p)

\* do { params.push(expect(IDENTIFIER).value); skip a comma } while (!match(RPAREN))
parseParamsFrom(T, p, params) ==
  LET name == expect(T, p, "IDENTIFIER")
  IN IF name.err # Null THEN name
     ELSE LET q == IF match(T, name.p, {"COMMA"}) THEN name.p + 1 ELSE name.p
          IN IF match(T, q, {"RPAREN"}) THEN Parsed(Append(params, name.node.value), q)
             ELSE this("parseParamsFrom", T, q, Append(params, name.node.value), Null)

parseActionDeclaration(T, p) ==
  LET k == expect(T, p, "ACTION")
      name == expect(T, k.p, "IDENTIFIER")
      l == expect(T, name.p, "LPAREN")
  IN IF k.err # Null THEN k
     ELSE IF name.err # Null THEN name
     ELSE IF l.err # Null THEN l
     ELSE LET params == IF match(T, l.p, {"RPAREN"}) THEN Parsed(<< >>, l.p)
                        ELSE this("parseParamsFrom", T, l.p, << >>, Null)
          IN IF params.err # Null THEN params
             ELSE LET r == expect(T, params.p, "RPAREN")
                  IN IF r.err # Null THEN r
                     ELSE LET body == this("parseBlock", T, r.p, Null, Null)
                          IN IF body.err # Null THEN body
                             ELSE LET e == expect(T, body.p, "END")
                                  IN IF e.err # Null THEN e
                                     ELSE Parsed(ActionDeclaration(name.node.value,
                                                   params.node, body.node), e.p)

parseStatement(T, p) ==
  IF match(T, p, {"ACTION"}) THEN this("parseActionDeclaration", T, p, Null, Null)
  ELSE IF match(T, p, {"CHECK"}) THEN this("parseCheckStatement", T, p, Null, Null)
  ELSE IF match(T, p, {"EACH"}) THEN this("parseEachStatement", T, p, Null, Null)
  ELSE IF match(T, p, {"AS"}) THEN this("parseAsStatement", T, p, Null, Null)
  ELSE this("parseExpressionStatement", T, p, Null, Null)

this(name, T, p, a, b) ==
  CASE name = "parseStatement" -> parseStatement(T, p)
    [] name = "parseActionDeclaration" -> parseActionDeclaration(T, p)
    [] name = "parseParamsFrom" -> parseParamsFrom(T, p, a)
    [] name = "parseCheckStatement" -> parseCheckStatement(T, p)
    [] name = "parseEachStatement" -> parseEachStatement(T, p)
    [] name = "parseAsStatement" -> parseAsStatement(T, p)
    [] name = "parseHead" -> parseHead(T, p, a)
    [] name = "parseBlock" -> parseBlock(T, p)
    [] name = "parseBlockFrom" -> parseBlockFrom(T, p, a)
    [] name = "parseExpressionStatement" -> parseExpressionStatement(T, p)
    [] name = "parseExpression" -> parseExpression(T, p)
    [] name = "parseLogicalOr" -> parseLogicalOr(T, p)
    [] name = "parseLevel" -> parseLevel(a, T, p)
    [] name = "binaryFrom" -> binaryFrom(a, T, p, b)
    [] name = "parseUnary" -> parseUnary(T, p)
    [] name = "parsePostfix" -> parsePostfix(T, p)
    [] name = "postfixFrom" -> postfixFrom(T, p, a)
    [] name = "parsePrimary" -> parsePrimary(T, p)
    [] name = "parseList" -> parseList(T, p, a)
    [] name = "parseListFrom" -> parseListFrom(T, p, a, b)

\* the loop of parse():  while (current() && current().type !== EOF)
RECURSIVE parseFrom(_, _, _)
parseFrom(T, p, statements) ==
  IF p >= Len(T) \/ T[p + 1].type = "EOF" THEN Parsed(Program(statements), p)
  ELSE LET s == this("parseStatement", T, p, Null, Null)
       IN IF s.err # Null THEN s ELSE parseFrom(T, s.p, Append(statements, s.node))

\* new Parser(tokens).parse()
parse(tokens) == parseFrom(withoutNewlines(tokens), 0, << >>)

(***************************************************************************)
(* PlutoInterpreter.execute(text): scan, parse, evaluate the statements of *)
(* the program in the global scope, return the last value; the first error *)
(* thrown on the way is caught and thrown again with the prefix.           *)
(* The texts are made of statements without check, each, as and action     *)
(* (the evaluation of those is the subject of Spec above), with numbers    *)
(* as the operands of their operators.                                     *)
(***************************************************************************)
BuiltinFn(name) == [t |-> "builtin", name |-> name]
NameOf(chars)   == [t |-> "id", chars |-> chars]

\* the builtins that the texts call
CalledBuiltins == {<<"p", "u", "s", "h">>, <<"a", "b", "s">>, <<"p", "r", "i", "n", "t">>}

\* globalEnv.variables after the constructor
GlobalVariables == [name \in {NameOf(b) : b \in CalledBuiltins} |-> BuiltinFn(name.chars)]

Value(v)   == [v |-> v, err |-> Null]
Raised(e)  == [v |-> Undefined, err |-> e]

operatorOf(node) == node.operator.chars

\* builtins[name](...args)
applyBuiltin(name, args) ==
  IF name = <<"p", "u", "s", "h">>
  THEN IF args = << >> \/ args[1].t \notin {"arr", "str"}
       THEN Raised(TypeError("arr is not iterable"))
       ELSE Value(Arr(args[1].elems \o SubSeq(args, 2, Len(args))))
  ELSE IF name = <<"a", "b", "s">>
  THEN Value(abs(args[1]))
  ELSE \* print
       Value(IF Len(args) = 1 THEN args[1] ELSE Arr(args))

RECURSIVE evaluateNode(_, _)
RECURSIVE evaluateAll(_, _, _)

\* node.args.map(arg => this.evaluate(arg, env)): the values, or the first
\* error
evaluateAll(G, nodes, acc) ==
  IF nodes = << >> THEN Value(acc)
  ELSE LET r == evaluateNode(G, Head(nodes))
       IN IF r.err # Null THEN r ELSE evaluateAll(G, Tail(nodes), Append(acc, r.v))

\* this.evaluate(node, env) for an expression, env the global scope with
\* the variables G
evaluateNode(G, node) ==
  CASE node.type = "Literal" -> Value(node.value)
    [] node.type = "Identifier" ->
         IF node.name \in DOMAIN G THEN Value(G[node.name])
         ELSE Raised(Thrown(<<"Undefined variable: ", node.name.chars>>, "Error"))
    [] node.type = "ArrayExpression" ->
         LET es == evaluateAll(G, node.elements, << >>)
         IN IF es.err # Null THEN es ELSE Value(Arr(es.v))
    [] node.type = "UnaryExpression" ->
         LET argument == evaluateNode(G, node.argument)
         IN IF argument.err # Null THEN argument
            ELSE IF operatorOf(node) = <<"-">> THEN Value(Num(0 - argument.v.n))
            ELSE Value(Bool(~isTruthy(argument.v)))
    [] node.type = "BinaryExpression" ->
         LET left  == evaluateNode(G, node.left)
             right == evaluateNode(G, node.right)
             op    == operatorOf(node)
         IN IF left.err # Null THEN left
            ELSE IF right.err # Null THEN right
            ELSE (CASE op = <<"+">> -> Value(Num(left.v.n + right.v.n))
                    [] op = <<"-">> -> Value(Num(left.v.n - right.v.n))
                    [] op = <<"*">> -> Value(Num(left.v.n * right.v.n))
                    [] op = <<"=", "=">> -> Value(Bool(left.v = right.v))
                    [] op = <<"!", "=">> -> Value(Bool(left.v # right.v))
                    [] op = <<"<">> -> Value(Bool(left.v.n < right.v.n))
                    [] op = <<">">> -> Value(Bool(left.v.n > right.v.n))
                    [] op = <<"<", "=">> -> Value(Bool(left.v.n <= right.v.n))
                    [] op = <<">", "=">> -> Value(Bool(left.v.n >= right.v.n))
                    [] op = <<"&", "&">> -> Value(Bool(isTruthy(left.v) /\ isTruthy(right.v)))
                    [] op = <<"|", "|">> -> Value(Bool(isTruthy(left.v) \/ isTruthy(right.v))))
    [] node.type = "CallExpression" ->
         LET fn == evaluateNode(G, node.callee)
         IN IF fn.err # Null THEN fn
            ELSE IF fn.v.t # "builtin"
            THEN Raised(Thrown(<<IF node.callee.type = "Identifier"
                                   THEN node.callee.name.chars ELSE "undefined",
                                 " is not a function">>, "Error"))
            ELSE LET args == evaluateAll(G, node.args, << >>)
                 IN IF args.err # Null THEN args
                    ELSE applyBuiltin(fn.v.name, args.v)

\* this.evaluate(statement, env) for a statement of the program: the
\* variables after it and its value, or the error
evaluateStatement(G, node) ==
  IF node.type = "NodeDeclaration"
  THEN LET value == evaluateNode(G, node.value)
       IN IF value.err # Null THEN [G |-> G, v |-> Undefined, err |-> value.err]
          ELSE [G |-> [n \in DOMAIN G \cup {node.name} |->
                         IF n = node.name THEN value.v ELSE G[n]],
                v |-> value.v, err |-> Null]
  ELSE LET value == evaluateNode(G, node)
       IN [G |-> G, v |-> value.v, err |-> value.err]

\* the statements the texts are made of, one per line
StatementTexts ==
  {<<"x", " ", "=", " ", "1">>,
   <<"x", " ", "=", " ", "x", " ", "+", " ", "1">>,
   <<"x">>,
   <<"y">>,
   <<"x", " ", "*", " ", "2", " ", "<", " ", "3">>,
   <<"p", "u", "s", "h", "(", "[", "1", "]", ",", " ", "x", ")">>,
   <<"p", "u", "s", "h", "(", "1", ",", " ", "2", ")">>,
   <<"x", "(", "1", ")">>,
   <<"a", "b", "s", "(", "-", "x", ")">>,
   <<"#">>,
   <<"\"", "a">>,
   <<")">>,
   <<"x", " ", "=">>,
   <<"(", "x">>}

MaxStatements == 3

RECURSIVE ProgramTexts(_)
ProgramTexts(k) ==
  IF k = 0 THEN {<< >>}
  ELSE ProgramTexts(k - 1)
       \cup {t \o <<"\n">> \o s : t \in ProgramTexts(k - 1) \ {<< >>}, s \in StatementTexts}
       \cup StatementTexts

NoValue == [t |-> "none"]

InitExecute ==
  /\ scopes = << [Environment(0) EXCEPT
                    !.variables = [n \in Names |->
                               IF n \in BuiltinNames THEN Builtin ELSE Unbound]] >>
  /\ ctrl = << >>
  /\ status = "idle"
  /\ ret = Null
  /\ steps = 0
  /\ lastCall = NoCall
  /\ lastOp = NoOp
  /\ asrun = [pc |-> "off", n |-> 0, bodyRuns |-> 0, condEvals |-> 0]
  /\ eachrun = EachOff
  /\ logic = LogicOff
  /\ mem = MemOff
  /\ \E code \in ProgramTexts(MaxStatements) : lexer = Lexer(code)
  /\ run = [pc |-> "tokenize", ast |-> << >>, i |-> 0, globals |-> GlobalVariables,
            result |-> Null, value |-> NoValue, error |-> Null,
            raised |-> << >>, after |-> 0]

executeFrame == <<scopes, ctrl, status, ret, steps, lastCall, lastOp, asrun,
                  eachrun, logic, mem>>

\* a faulty variant: the error is thrown again as it is
rethrowAsIs(error) == error

\* catch (error) { throw new Error(`Pluto Error: ${error.message}`) }
rethrow(error) == PlutoError(error)

failed(error) ==
  [run EXCEPT !.pc = "failed", !.error = rethrow(error),
              !.raised = Append(@, error)]

\* lexer.tokenize(): one iteration of its loop
ExecuteTokenize ==
  /\ run.pc = "tokenize"
  /\ lexer.pc = "scan"
  /\ lexer.position < Len(lexer.input)
  /\ LET r == tokenizeStep(lexer)
     IN /\ lexer' = scanned(r)
        /\ run' = IF r.err # Null THEN failed(r.err) ELSE run
  /\ UNCHANGED executeFrame

\* a faulty variant: a statement is evaluated as soon as it is parsed, so
\* the first one has run when a later one does not parse
ExecuteParseEager ==
  /\ run.pc = "tokenize"
  /\ lexer.pc = "scan"
  /\ lexer.position >= Len(lexer.input)
  /\ lexer' = [lexer EXCEPT
                 !.tokens = Append(@, Token("EOF", Null, lexer.line, lexer.column)),
                 !.pc = "done"]
  /\ LET ast == parse(lexer'.tokens)
         first == this("parseStatement", withoutNewlines(lexer'.tokens), 0, Null, Null)
     IN run' = IF ast.err # Null
               THEN IF first.err # Null THEN failed(ast.err)
                    ELSE [failed(ast.err) EXCEPT
                            !.globals = evaluateStatement(run.globals, first.node).G,
                            !.i = 1]
               ELSE [run EXCEPT !.pc = "evaluate", !.ast = ast.node.statements]
  /\ UNCHANGED executeFrame

\* lexer.tokenize() returns, and parser.parse() runs
ExecuteParse ==
  /\ run.pc = "tokenize"
  /\ lexer.pc = "scan"
  /\ lexer.position >= Len(lexer.input)
  /\ lexer' = [lexer EXCEPT
                 !.tokens = Append(@, Token("EOF", Null, lexer.line, lexer.column)),
                 !.pc = "done"]
  /\ LET ast == parse(lexer'.tokens)
     IN run' = IF ast.err # Null THEN failed(ast.err)
               ELSE [run EXCEPT !.pc = "evaluate", !.ast = ast.node.statements]
  /\ UNCHANGED executeFrame

\* evaluateProgram: result = this.evaluate(statement, env)
ExecuteStatement ==
  /\ run.pc = "evaluate"
  /\ run.i < Len(run.ast)
  /\ LET r == evaluateStatement(run.globals, run.ast[run.i + 1])
     IN run' = IF r.err # Null
               THEN failed(r.err)
               ELSE [run EXCEPT !.globals = r.G, !.i = @ + 1, !.result = r.v,
                                !.after = IF run.raised # << >> THEN @ + 1 ELSE @]
  /\ UNCHANGED <<executeFrame, lexer>>

\* evaluateProgram returns result, and execute returns it
ExecuteReturn ==
  /\ run.pc = "evaluate"
  /\ run.i = Len(run.ast)
  /\ run' = [run EXCEPT !.pc = "returned", !.value = run.result]
  /\ UNCHANGED <<executeFrame, lexer>>

NextExecute ==
  \/ ExecuteTokenize
  \/ ExecuteParse
  \/ ExecuteStatement
  \/ ExecuteReturn

SpecExecute == InitExecute /\ [][NextExecute]_vars

(***************************************************************************)
(* new Parser(tokens).parse() on its own: the tokens are those of a text   *)
(* that scans without error, one step is one iteration of the loop of      *)
(* parse().  run.i is this.position, run.ast the statements pushed so far. *)
(***************************************************************************)
\* lexer.tokenize() as a whole: the Lexer when its loop is left or throws
RECURSIVE tokenizeFrom(_)
tokenizeFrom(L) ==
  IF L.pc # "scan" THEN L
  ELSE IF L.position >= Len(L.input)
  THEN [L EXCEPT !.tokens = Append(@, Token("EOF", Null, L.line, L.column)),
                 !.pc = "done"]
  ELSE tokenizeFrom(scanned(tokenizeStep(L)))

tokenize(input) == tokenizeFrom(Lexer(input))

\* the texts of up to k of the pieces
RECURSIVE Concatenations(_, _)
Concatenations(pieces, k) ==
  IF k = 0 THEN {<< >>}
  ELSE Concatenations(pieces, k - 1)
       \cup {c \o w : c \in Concatenations(pieces, k - 1), w \in pieces}

\* the binary operators
OperatorTexts ==
  {<<"|", "|">>, <<"&", "&">>, <<"=", "=">>, <<"!", "=">>, <<"<">>, <<">">>, <<"<", "=">>,
   <<">", "=">>, <<"+">>, <<"-">>, <<"*">>, <<"/">>, <<"%">>}

\* 2 a 3 b 4 for every pair of operators, plain and with parentheses
plain(a, b)        == <<"2", " ">> \o a \o <<" ", "3", " ">> \o b \o <<" ", "4">>
groupedLeft(a, b)  == <<"(", "2", " ">> \o a \o <<" ", "3", ")", " ">> \o b \o <<" ", "4">>
groupedRight(a, b) == <<"2", " ">> \o a \o <<" ", "(", "3", " ">> \o b \o <<" ", "4", ")">>

ExpressionTexts ==
  UNION {{plain(a, b), groupedLeft(a, b), groupedRight(a, b)} :
         a \in OperatorTexts, b \in OperatorTexts}

\* the openers of the four constructs, else, end and a plain statement
BlockPieces ==
  {<<"c", "h", "e", "c", "k", " ", "(", "x", ")", "\n">>, <<"a", "s", " ", "(", "x", ")", "\n">>, <<"e", "a", "c", "h", " ", "(", "x", " ", "i", "n", " ", "x", ")", "\n">>,
   <<"a", "c", "t", "i", "o", "n", " ", "f", "(", ")", "\n">>, <<"e", "l", "s", "e", "\n">>, <<"e", "n", "d", "\n">>,
   <<"x", "\n">>}

\* single tokens, in any order
TokenPieces ==
  {<<"x", " ">>, <<"(", " ">>, <<")", " ">>, <<"[", " ">>, <<"]", " ">>, <<",", " ">>,
   <<".", " ">>, <<"=", " ">>, <<"-", " ">>, <<"a", "c", "t", "i", "o", "n", " ">>, <<"e", "n", "d", " ">>}

MaxBlocks == 5
MaxTokens == 4
MaxOpen == 2

\* the number of opening parentheses and brackets of a text
opens(code) == Len(SelectSeq(code, LAMBDA ch : ch \in {"(", "["}))

ParserTexts ==
  ExpressionTexts \cup Concatenations(BlockPieces, MaxBlocks)
                  \cup {code \in Concatenations(TokenPieces, MaxTokens) :
                          opens(code) <= MaxOpen}

InitParser ==
  /\ scopes = << [Environment(0) EXCEPT
                    !.variables = [n \in Names |->
                               IF n \in BuiltinNames THEN Builtin ELSE Unbound]] >>
  /\ ctrl = << >>
  /\ status = "idle"
  /\ ret = Null
  /\ steps = 0
  /\ lastCall = NoCall
  /\ lastOp = NoOp
  /\ asrun = [pc |-> "off", n |-> 0, bodyRuns |-> 0, condEvals |-> 0]
  /\ eachrun = EachOff
  /\ logic = LogicOff
  /\ mem = MemOff
  /\ \E code \in ParserTexts : lexer = tokenize(code)
  /\ run = [RunOff EXCEPT !.pc = "parse"]

\* this.tokens
parserTokens == withoutNewlines(lexer.tokens)

\* statements.push(this.parseStatement())
ParseStatement ==
  /\ run.pc = "parse"
  /\ run.i < Len(parserTokens)
  /\ parserTokens[run.i + 1].type # "EOF"
  /\ LET s == this("parseStatement", parserTokens, run.i, Null, Null)
     IN run' = IF s.err # Null
               THEN [run EXCEPT !.pc = "error", !.error = s.err, !.i = s.p]
               ELSE [run EXCEPT !.ast = Append(@, s.node), !.i = s.p]
  /\ UNCHANGED <<executeFrame, lexer>>

\* return new Program(statements)
ParseReturn ==
  /\ run.pc = "parse"
  /\ run.i >= Len(parserTokens) \/ parserTokens[run.i + 1].type = "EOF"
  /\ run' = [run EXCEPT !.pc = "parsed"]
  /\ UNCHANGED <<executeFrame, lexer>>

NextParser == ParseStatement \/ ParseReturn

SpecParser == InitParser /\ [][NextParser]_vars

-----------------------------------------------------------------------------
(* Implicit return *)

\* C1: an invocation in whose scope the assignments bound exactly one
\* non-parameter name returns the value that name is bound to in the
\* invocation's scope when the body ends, whatever the last statement
\* evaluated to.
C1_SingleAssignedNameIsReturned ==
  (lastCall.valid /\ Len(lastCall.firsts) = 1) =>
    /\ lastCall.locals[lastCall.firsts[1]] # Unbound
    /\ lastCall.result = lastCall.locals[lastCall.firsts[1]]

C1_Witness ==
  /\ lastCall.valid
  /\ Len(lastCall.firsts) = 1
  /\ lastCall.result.t = "num"
  /\ lastCall.lastValue # lastCall.result

\* C2: an invocation in whose scope the assignments bound N > 1 distinct
\* non-parameter names returns a Record whose keys are exactly those names
\* in the order they were first assigned, each with the value it is bound
\* to in the invocation's scope when the body ends.
C2_SeveralAssignedNamesGiveRecord ==
  (lastCall.valid /\ Len(lastCall.firsts) > 1) =>
    /\ lastCall.result.t = "rec"
    /\ lastCall.result.keys = lastCall.firsts
    /\ Len(lastCall.result.vals) = Len(lastCall.firsts)
    /\ \A i \in 1..Len(lastCall.firsts) :
         /\ lastCall.result.vals[i] = lastCall.locals[lastCall.firsts[i]]
         /\ lastCall.result.vals[i] # Unbound
         /\ lastCall.firsts[i] \notin SeqToSet(lastCall.params)
         /\ \A j \in 1..Len(lastCall.firsts) :
              lastCall.firsts[j] = lastCall.firsts[i] => j = i

C2_Witness ==
  /\ lastCall.valid
  /\ lastCall.params # << >>
  /\ lastCall.firsts = <<"y", "x">>
  /\ lastCall.result = Rec(<<"y", "x">>, <<Num(1), Num(0)>>)

\* C3: an invocation in whose scope the assignments bound no non-parameter
\* name returns the value of the last statement of its body, and null
\* when the body is empty.
C3_NoAssignedNameGivesLastValue ==
  (lastCall.valid /\ lastCall.firsts = << >>) =>
    /\ lastCall.result = lastCall.lastValue
    /\ lastCall.bodyEmpty => lastCall.result = Null

C3_Witness ==
  /\ lastCall.valid
  /\ lastCall.firsts = << >>
  /\ ~lastCall.bodyEmpty
  /\ lastCall.result.t = "num"

-----------------------------------------------------------------------------
(* Assignments in action bodies and loops *)

\* the step is the assignment  name = ...  made by code running in cur
Assigned(name) == lastOp'.op = "assign" /\ lastOp'.name = name

\* scope e is the scope of an iteration of an each loop
IsLoopScope(S, e) == e # 1 /\ ~S[e].isAction

\* the step is such an assignment made in the body of an invocation (its
\* scope is c) to a name that only a proper ancestor h of c binds
AssignsAncestorName(name, c, h) ==
  /\ Assigned(name)
  /\ c = CallScope(scopes, cur)
  /\ h = lastOp'.holder
  /\ c # 0 /\ h # 0 /\ h < c

\* C4, as claimed: an assignment in an action body to a name bound only in
\* an ancestor of the call's scope is not recorded in the call's
\* locally-assigned set.
C4_AncestorNameNotRecorded ==
  [][\A name \in Targets : \A c, h \in 0..Len(scopes) :
       AssignsAncestorName(name, c, h) =>
         scopes'[c].assigned = scopes[c].assigned]_vars

\* C4, amended: an assignment in an action body (directly or in a nested
\* each) to a name bound only in an ancestor of the call's scope binds the
\* name in the call's scope, leaves the ancestor's binding as it was, and
\* is recorded in the call's locally-assigned set, so it does change which
\* implicit-return case applies.
C4_AncestorNameBoundLocallyAndRecorded ==
  [][\A name \in Targets : \A c, h \in 0..Len(scopes) :
       AssignsAncestorName(name, c, h) =>
         /\ scopes'[c].variables[name] = lastOp'.value
         /\ scopes'[h] = scopes[h]
         /\ name \notin SeqToSet(scopes[c].assigned)
         /\ scopes'[c].assigned = Append(scopes[c].assigned, name)]_vars

C4_Witness ==
  /\ lastOp.op = "assign"
  /\ status = "running"
  /\ IsLoopScope(scopes, lastOp.env)
  /\ lastOp.holder # 0
  /\ lastOp.holder < CallScope(scopes, lastOp.env)
  /\ scopes[lastOp.holder].variables[lastOp.name].t = "fn"
  /\ scopes[CallScope(scopes, lastOp.env)].assigned = <<lastOp.name>>

\* the step is an assignment made in the body of an invocation (its scope
\* is c) to the name of one of its formal parameters
AssignsParameter(name, c) ==
  /\ Assigned(name)
  /\ c = CallScope(scopes, cur)
  /\ c # 0
  /\ name \in SeqToSet(scopes[c].params)

NoDuplicates(s) == \A i, j \in 1..Len(s) : s[i] = s[j] => i = j

\* C5, as claimed: an assignment to a formal parameter name anywhere in the
\* body updates the parameter's binding in the call's scope and adds
\* nothing to the locally-assigned set, which never holds a name twice.
C5_ParameterAssignmentUpdatesCallScope ==
  [][\A name \in Targets : \A c \in 0..Len(scopes) :
       /\ AssignsParameter(name, c) =>
            /\ scopes'[c].variables[name] = lastOp'.value
            /\ scopes'[c].assigned = scopes[c].assigned
       /\ c # 0 /\ c <= Len(scopes') => NoDuplicates(scopes'[c].assigned)]_vars

\* C5, amended: an assignment to a formal parameter name that no loop
\* variable of an enclosing each shadows updates the parameter's binding
\* in the call's scope; shadowed or not, it adds nothing to the
\* locally-assigned set, which never holds a name twice nor a parameter.
C5_UnshadowedParameterAssignmentUpdatesCallScope ==
  [][\A name \in Targets : \A c \in 0..Len(scopes) :
       /\ AssignsParameter(name, c) =>
            /\ lastOp'.holder = c => scopes'[c].variables[name] = lastOp'.value
            /\ lastOp'.holder # c =>
                 /\ scopes'[c] = scopes[c]
                 /\ scopes'[lastOp'.holder].variables[name] = lastOp'.value
                 /\ IsLoopScope(scopes, lastOp'.holder)
            /\ scopes'[c].assigned = scopes[c].assigned
       /\ c # 0 /\ c <= Len(scopes') =>
            /\ NoDuplicates(scopes'[c].assigned)
            /\ SeqToSet(scopes'[c].assigned) \cap SeqToSet(scopes'[c].params) = {}]_vars

C5_Witness ==
  /\ lastOp.op = "assign"
  /\ status = "running"
  /\ IsLoopScope(scopes, lastOp.env)
  /\ lastOp.holder # 0
  /\ lastOp.holder = CallScope(scopes, lastOp.env)
  /\ lastOp.name \in SeqToSet(scopes[lastOp.holder].params)
  /\ scopes[lastOp.holder].assigned = << >>
  /\ scopes[lastOp.holder].variables[lastOp.name] = Num(2)

\* the scopes other than e are the same before and after the step
OthersUnchanged(e) ==
  /\ Len(scopes') = Len(scopes)
  /\ \A i \in 1..Len(scopes) : i # e => scopes'[i] = scopes[i]

\* C6: a name bound nowhere in the scope chain and first assigned inside
\* an each loop nested in an action body is bound in the iteration's scope
\* only: the invocation's scope, its locally-assigned set and every other
\* scope stay as they were, and the binding goes when the iteration ends.
C6_NewNameInNestedEachStaysInIteration ==
  [][\A name \in Targets :
       (/\ Assigned(name)
        /\ lastOp'.holder = 0
        /\ IsLoopScope(scopes, cur)
        /\ CallScope(scopes, cur) # 0) =>
          /\ scopes'[cur].variables[name] = lastOp'.value
          /\ OthersUnchanged(cur)
          /\ name \notin SeqToSet(scopes'[CallScope(scopes, cur)].assigned)
          /\ ~HasLocal(scopes', CallScope(scopes, cur), name)]_vars

C6_Witness ==
  /\ lastOp.op = "assign"
  /\ status = "running"
  /\ lastOp.holder = 0
  /\ IsLoopScope(scopes, lastOp.env)
  /\ CallScope(scopes, lastOp.env) # 0
  /\ HasLocal(scopes, lastOp.env, lastOp.name)
  /\ ~has(scopes, CallScope(scopes, lastOp.env), lastOp.name)

\* the step is an assignment made in the body of an each loop to a name
\* that the iteration's scope does not bind and scope h, the nearest
\* enclosing scope holding it, does
AssignsOuterNameInEach(name, h) ==
  /\ Assigned(name)
  /\ IsLoopScope(scopes, cur)
  /\ ~HasLocal(scopes, cur, name)
  /\ h = lastOp'.holder
  /\ h # 0

\* C7, as claimed: in every each loop, also inside an action body, such an
\* assignment updates the binding in the nearest enclosing scope that
\* holds the name.
C7_EachAssignmentUpdatesNearestHolder ==
  [][\A name \in Targets : \A h \in 0..Len(scopes) :
       AssignsOuterNameInEach(name, h) =>
         scopes'[h].variables[name] = lastOp'.value]_vars

\* C7, amended: such an assignment updates the binding in the nearest
\* enclosing scope that holds the name, unless the loop is in the body of
\* an action invocation whose scope lies below that holder: then it binds
\* the name in the invocation's scope and the holder's binding is unchanged.
C7_EachAssignmentUpdatesHolderOrCallScope ==
  [][\A name \in Targets : \A h \in 0..Len(scopes) :
       AssignsOuterNameInEach(name, h) =>
         LET c == CallScope(scopes, cur)
             w == IF c > h THEN c ELSE h
         IN /\ scopes'[w].variables[name] = lastOp'.value
            /\ OthersUnchanged(w)
            /\ w # h => scopes'[h] = scopes[h]]_vars

C7_Witness ==
  /\ lastOp.op = "assign"
  /\ status = "running"
  /\ IsLoopScope(scopes, lastOp.env)
  /\ CallScope(scopes, lastOp.env) = 0
  /\ lastOp.holder = 1
  /\ lastOp.name = "x"
  /\ Top.kind = "each" /\ Top.iter = <<Num(1), Num(2)>> /\ Top.i = 1
  /\ scopes[1].variables["x"] = Num(3)

\* C8: every iteration of an each loop runs in a fresh scope whose parent
\* is the scope the loop is met in and that binds the loop variable only;
\* a name first assigned in the body is bound in that scope only; when
\* the iteration ends the scope is dropped and the enclosing scopes are as
\* the body left them.
C8_EachIterationHasFreshScope ==
  [][/\ lastOp'.op \in {"each", "eachNext"} =>
          LET t == Len(scopes') IN
            /\ t = (IF lastOp'.op = "each" THEN Len(scopes) + 1 ELSE Len(scopes))
            /\ SubSeq(scopes', 1, t - 1) = SubSeq(scopes, 1, t - 1)
            /\ scopes'[t].parent =
                 (IF lastOp'.op = "each" THEN cur ELSE scopes[cur].parent)
            /\ ~scopes'[t].isAction
            /\ \A n \in Names :
                 scopes'[t].variables[n] =
                   (IF n = lastOp'.name THEN lastOp'.value ELSE Unbound)
     /\ lastOp'.op = "eachEnd" => scopes' = Pop(scopes)
     /\ \A name \in Targets :
          (Assigned(name) /\ lastOp'.holder = 0 /\ IsLoopScope(scopes, cur)) =>
            /\ scopes'[cur].variables[name] = lastOp'.value
            /\ OthersUnchanged(cur)]_vars

C8_Witness ==
  /\ lastOp.op = "eachEnd"
  /\ status = "running"
  /\ lastOp.holder >= 2
  /\ Top.kind = "program"
  /\ \A n \in Targets : ~has(scopes, cur, n)

\* C9: a while loop creates no scope: its body runs in the scope the loop
\* is met in, entering, repeating and leaving the loop change no scope,
\* and a name first assigned in the body is bound in the scope that
\* encloses the loop, where it stays.
C9_WhileBodyRunsInEnclosingScope ==
  [][/\ \A k \in 2..Len(ctrl') :
          ctrl'[k].kind = "as" => ctrl'[k].env = ctrl'[k - 1].env
     /\ lastOp'.op \in {"as", "asSkip", "asNext", "asEnd"} => scopes' = scopes
     /\ \A name \in Targets :
          (Assigned(name) /\ lastOp'.holder = 0 /\ Top.kind = "as") =>
            /\ scopes'[ctrl[Len(ctrl) - 1].env].variables[name] = lastOp'.value
            /\ Len(scopes') = Len(scopes)]_vars

C9_Witness ==
  /\ lastOp.op = "asNext"
  /\ status = "running"
  /\ Len(ctrl) = 2
  /\ Top.iterations = 2
  /\ scopes[1].variables["y"] # Unbound
  /\ steps = 4

-----------------------------------------------------------------------------
(* The counting while loop *)

\* C10: for every n in 0..10000 the program  x = n; as (x > 0) x = x - 1
\* end; x  ends without error and returns 0, its body having run n times
\* and its condition having been evaluated n + 1 times.
C10_CountdownTerminates ==
  /\ [](asrun.n <= maxIterations =>
          /\ asrun.pc # "failed"
          /\ asrun.bodyRuns <= asrun.n
          /\ asrun.pc = "done" =>
               /\ status = "idle"
               /\ ret = Num(0)
               /\ scopes[1].variables["x"] = Num(0)
               /\ asrun.bodyRuns = asrun.n
               /\ asrun.condEvals = asrun.n + 1)
  /\ (asrun.n <= maxIterations => <>(asrun.pc = "done"))

C10_Witness ==
  /\ asrun.pc = "done"
  /\ asrun.n = maxIterations
  /\ asrun.bodyRuns = maxIterations

\* C11: a while loop whose condition is still truthy after its body has
\* run maxIterations times makes execute fail with the iteration-limit
\* error, and the body never runs more than maxIterations times: the
\* countdown from n > maxIterations never completes, it fails after exactly
\* maxIterations runs of the body and maxIterations + 1 evaluations of the
\* condition.
C11_WhileLoopFailsAtCeiling ==
  /\ [](/\ asrun.bodyRuns <= maxIterations
        /\ asrun.n > maxIterations =>
             /\ asrun.pc # "done" /\ asrun.pc # "read"
             /\ asrun.pc = "failed" =>
                  /\ status = "error"
                  /\ ret = PlutoError(IterationLimit)
                  /\ asrun.bodyRuns = maxIterations
                  /\ asrun.condEvals = maxIterations + 1
                  /\ isTruthy(evaluate(scopes, 1, Countdown)))
  /\ (asrun.n > maxIterations => <>(asrun.pc = "failed"))

C11_Witness ==
  /\ asrun.pc = "failed"
  /\ asrun.n = maxIterations + 1
  /\ asrun.bodyRuns = maxIterations
  /\ scopes[1].variables["x"] = Num(1)

EachRuns(len) == IF len < maxIterations THEN len ELSE maxIterations

\* C12: an each loop over an array of length len runs its body exactly
\* min(len, maxIterations) times, for the indices 0, 1, 2, ... in order
\* with the loop variable bound to the element at the index, and never
\* fails: past the ceiling the remaining elements are skipped and the
\* statement after the loop is evaluated.
C12_EachRunsMinLenCeilingTimes ==
  /\ [](/\ eachrun.inOrder
        /\ eachrun.bodyRuns <= EachRuns(eachrun.len)
        /\ status # "error"
        /\ eachrun.pc \in {"read", "done"} =>
             /\ eachrun.bodyRuns = EachRuns(eachrun.len)
             /\ scopes[1].variables["x"] = Num(EachRuns(eachrun.len))
             /\ Len(scopes) = 1
        /\ eachrun.pc = "done" =>
             /\ status = "idle"
             /\ ret = Num(EachRuns(eachrun.len)))
  /\ <>(eachrun.pc = "done")

C12_Witness ==
  /\ eachrun.pc = "done"
  /\ eachrun.len = maxIterations + 1
  /\ eachrun.bodyRuns = maxIterations
  /\ ret = Num(maxIterations)

-----------------------------------------------------------------------------
(* check *)

\* C16: a check statement whose condition evaluates without error runs
\* exactly one branch, in the scope the check is met in: the consequent
\* when the condition is truthy, the alternate when it is falsy and there
\* is an else, and no branch otherwise; entering and leaving the branch
\* change no scope, and a name first assigned in the branch is bound in
\* that scope, where it still reads with its value after the check.
C16_CheckRunsOneBranchInSameScope ==
  [][/\ \A cond \in Conds : \A hasAlternate \in BOOLEAN :
          LET c == evaluate(scopes, cur, cond) IN
            (evaluateCheckStatement(cond, hasAlternate) /\ ~IsError(c)) =>
              /\ scopes' = scopes
              /\ IF isTruthy(c) \/ hasAlternate
                   THEN /\ Len(ctrl') = Len(ctrl) + 1
                        /\ ctrl'[Len(ctrl')].kind = "check"
                        /\ ctrl'[Len(ctrl')].env = cur
                        /\ ctrl'[Len(ctrl')].variable =
                             (IF isTruthy(c) THEN "consequent" ELSE "alternate")
                 ELSE ctrl' = SetLast(ctrl, Null)
     /\ \A name \in Targets :
          (Assigned(name) /\ lastOp'.holder = 0 /\ Top.kind = "check") =>
            /\ cur = ctrl[Len(ctrl) - 1].env
            /\ scopes'[cur].variables[name] = lastOp'.value
            /\ OthersUnchanged(cur)
     /\ CheckEnd =>
          /\ scopes' = scopes
          /\ ctrl'[Len(ctrl')].env = cur
          /\ \A n \in Targets :
               evaluate(scopes', ctrl'[Len(ctrl')].env, Id(n)) = evaluate(scopes, cur, Id(n))]_vars

C16_Witness ==
  /\ status = "running"
  /\ lastOp.op = "assign"
  /\ lastOp.holder = 0
  /\ Top.kind = "check"
  /\ Top.variable = "alternate"
  /\ cur > 1
  /\ HasLocal(scopes, cur, lastOp.name)

-----------------------------------------------------------------------------
(* && and || *)

\* what evaluating operand x prints, and its value (a literal's or the
\* printed one's), read off the expression
Printed(x) == IF x.k = "call" THEN <<x.args[1].v>> ELSE << >>
OperandValue(x) == IF x.k = "call" THEN x.args[1].v ELSE x.v
Fails(x) == x.k = "id"

\* C17: when  left && right  or  left || right  has been evaluated and the
\* left operand did not fail, the right operand has been evaluated after
\* it whatever the left operand's truthiness: what it prints has been
\* printed after what the left operand prints, an error it raises is the
\* outcome, and otherwise the result is the Boolean and / or of the two
\* truthiness values.
C17_LogicalOperatorsEvaluateBothOperands ==
  (logic.pc = "done" /\ ~Fails(logic.x.left)) =>
    LET l == logic.x.left
        r == logic.x.right
    IN /\ logic.console = Printed(l) \o Printed(r)
       /\ Fails(r) => /\ IsError(logic.result)
                       /\ status = "error"
                       /\ ret = PlutoError(Thrown("Undefined variable", r.name))
       /\ ~Fails(r) =>
            /\ status = "idle"
            /\ ret = logic.result
            /\ logic.result =
                 Bool(IF logic.x.op = "&&"
                        THEN isTruthy(OperandValue(l)) /\ isTruthy(OperandValue(r))
                      ELSE isTruthy(OperandValue(l)) \/ isTruthy(OperandValue(r)))

C17_Witness ==
  /\ logic.pc = "done"
  /\ logic.x.op = "||"
  /\ logic.x.left = Lit(Bool(TRUE))
  /\ logic.x.right = Call("print", <<Lit(Num(0))>>)
  /\ logic.console = <<Num(0)>>
  /\ ret = Bool(TRUE)

-----------------------------------------------------------------------------
(* The global scope across execute calls *)

\* C15: an interpreter has one global scope for its lifetime: between two
\* execute calls it is the only scope, the return of a call leaves it as
\* the last statement left it, and the next call runs its program in it
\* unchanged, so that every name reads there with the value last assigned.
C15_GlobalScopePersistsAcrossCalls ==
  [][/\ Execute =>
          /\ Len(scopes) = 1 /\ scopes' = scopes
          /\ ctrl' = << Frame("program", 1) >>
          /\ \A n \in Targets :
               HasLocal(scopes, 1, n) =>
                 evaluate(scopes', ctrl'[1].env, Id(n)) = scopes[1].variables[n]
     /\ ProgramEnd =>
          /\ Len(scopes) = 1 /\ scopes' = scopes
          /\ status' = "idle"]_vars

C15_Witness ==
  /\ status = "running"
  /\ lastOp.op = "expr"
  /\ lastOp.value = Num(1)
  /\ steps = 2
  /\ ret = Num(1)
  /\ Len(ctrl) = 1
  /\ scopes[1].variables["x"] = Num(1)
  /\ \A n \in Targets \ {"x"} : ~HasLocal(scopes, 1, n)

-----------------------------------------------------------------------------
(* Errors *)

\* C13: an each loop whose iterable evaluates to anything but an array
\* raises a runtime error before its body runs and before any scope is
\* made for an iteration: no statement is counted, every activation is
\* abandoned, the global scope is as it was, and execute fails with that
\* one error under the fixed prefix.
C13_EachOverNonArrayFails ==
  [][\A variable \in LoopVars : \A iterable \in NonArrays :
       evaluateEachStatement(variable, iterable) =>
         /\ status' = "error"
         /\ ret' = PlutoError(EachRequiresArray)
         /\ ret'.msg = <<"Pluto Error: ", "Each statement requires an array">>
         /\ ctrl' = << >>
         /\ scopes' = <<scopes[1]>>
         /\ steps' = steps
         /\ lastOp'.op = "throw"]_vars

C13_Witness ==
  /\ status = "error"
  /\ lastOp.op = "throw"
  /\ ret = PlutoError(EachRequiresArray)
  /\ scopes[1].variables["x"] = Num(1)
  /\ steps = 2

(***************************************************************************)
(* Member access and the array builtins *)
(***************************************************************************)
\* the element stored at an index of an array or the field stored under a
\* key of a record, Absent where there is none
Stored(heap, object, property) ==
  IF object.t = "ref" /\ property.t = "num"
     /\ property.n >= 0 /\ property.n < Len(heap[object.a])
  THEN heap[object.a][property.n + 1]
  ELSE IF object.t = "rec" /\ property.t = "str"
          /\ \E i \in 1..Len(object.keys) : object.keys[i] = property.s
  THEN object.vals[CHOOSE i \in 1..Len(object.keys) : object.keys[i] = property.s]
  ELSE Undefined

\* C18: member access on an Array or a Record never fails and never changes
\* a value: it yields the element stored at the index or the field stored
\* under the key, and Absent for every other index or key.
C18_MemberAccessYieldsStoredOrAbsent ==
  [][\A property \in MemberProperties : \A object \in {Ref(1), mem.v} :
       (object.t \in {"ref", "rec"} /\ MemberAccess(object, property)) =>
         /\ mem'.err = Null
         /\ mem'.heap[1] = mem.heap[1]
         /\ mem'.v = Stored(mem.heap, object, property)]_vars

\* C19: every array builtin leaves its input array unchanged: after the
\* call x reads the same elements as before; push returns a new array with
\* the item appended, pop a Record of the shortened copy and the item.
C19_ArrayBuiltinsLeaveInputUnchanged ==
  [][\A name \in ArrayBuiltinNames : \A args \in BuiltinArgs(name) :
       CallArrayBuiltin(name, args) =>
         /\ mem'.heap[1] = mem.heap[1]
         /\ name = "push" =>
              /\ mem'.err = Null
              /\ mem'.v = Ref(2)
              /\ mem'.heap[2] = Append(mem.heap[1], args[1])
         /\ name = "pop" =>
              /\ mem'.err = Null
              /\ mem'.v.t = "rec"
              /\ mem'.v.keys = <<"array", "item">>
              /\ mem'.v.vals[1] = Ref(2)
              /\ mem'.heap[2] = SubSeq(mem.heap[1], 1, Len(mem.heap[1]) - 1)
              /\ mem'.v.vals[2] = IF mem.heap[1] = << >> THEN Undefined
                                  ELSE mem.heap[1][Len(mem.heap[1])]]_vars

(***************************************************************************)
(* Keywords and identifiers *)
(***************************************************************************)
\* the index in the text of the character at (line, column)
RECURSIVE indexOf(_, _, _)
indexOf(input, line, column) ==
  IF line = 1 THEN column
  ELSE LET nl == CHOOSE i \in 1..Len(input) :
                   input[i] = "\n" /\ \A j \in 1..(i - 1) : input[j] # "\n"
       IN nl + indexOf(SubSeq(input, nl + 1, Len(input)), line - 1, column)

\* the maximal run of word characters that starts at index i of the text
RECURSIVE wordAt(_, _)
wordAt(input, i) ==
  IF i <= Len(input) /\ input[i] \in Letters \cup Digits
  THEN <<input[i]>> \o wordAt(input, i + 1)
  ELSE << >>

wordTokens ==
  {i \in 1..Len(lexer.tokens) :
     lexer.tokens[i].value # Null /\ lexer.tokens[i].value.t \in {"id", "bool"}}

\* C20: for every maximal run of word characters the scanner emits a
\* keyword token exactly when the text is one of the nine keywords, and
\* otherwise an IDENTIFIER token whose value is the text: so for the names
\* of the builtin table and for every other word that is not a keyword.
C20_KeywordsExactlyElseIdentifier ==
  \A i \in wordTokens :
    LET token == lexer.tokens[i]
        text == wordAt(lexer.input, indexOf(lexer.input, token.line, token.column))
    IN IF text \in DOMAIN KEYWORDS
       THEN token.type = KEYWORDS[text]
       ELSE token.type = "IDENTIFIER" /\ token.value = [t |-> "id", chars |-> text]

(***************************************************************************)
(* Failures of execute *)
(***************************************************************************)
\* C14: every failure of execute, in the scanner, the parser, the evaluator
\* or a builtin, surfaces as exactly one error whose message is the prefix
\* "Pluto Error: " followed by the message of the first error raised; no
\* statement after the failing point is evaluated and no value is returned.
C14_FailureIsOneWrappedFirstError ==
  /\ run.raised # << >> =>
       /\ run.pc = "failed"
       /\ Len(run.raised) = 1
       /\ run.error.t = "error"
       /\ Len(run.error.msg) = 2
       /\ run.error.msg[1] = "Pluto Error: "
       /\ run.error.msg[2] = run.raised[1].msg
       /\ run.value = NoValue
       /\ run.after = 0
  /\ run.pc = "failed" => run.raised # << >>
  /\ run.pc = "returned" => run.raised = << >> /\ run.error = Null

\* a builtin fails in the second of three statements
C14_Witness ==
  /\ run.pc = "failed"
  /\ run.raised[1].name = "TypeError"
  /\ run.i = 1
  /\ Len(run.ast) = 3
  /\ run.error.msg[1] = "Pluto Error: "
  /\ run.error.msg[2] = run.raised[1].msg

(***************************************************************************)
(* tokenize *)
(***************************************************************************)
\* token t is not before token s in the text
notBefore(t, s) == t.line > s.line \/ (t.line = s.line /\ t.column >= s.column)

\* the character of the text at (line, column), "" where there is none
charAtPosition(input, line, column) ==
  IF line >= 1 /\ column >= 1
     /\ Len(SelectSeq(input, LAMBDA ch : ch = "\n")) >= line - 1
     /\ indexOf(input, line, column) \in 1..Len(input)
  THEN input[indexOf(input, line, column)]
  ELSE ""

tokenizeOutcome ==
  /\ lexer.pc = "error" =>
       LET m == lexer.err.msg
       IN IF m[1] = "Unterminated string at line "
          THEN /\ Len(m) = 4
               /\ charAtPosition(lexer.input, m[2], m[4]) \in {"\"", "'"}
          ELSE /\ m[1] = "Unexpected character '"
               /\ Len(m) = 6
               /\ charAtPosition(lexer.input, m[4], m[6]) = m[2]
               /\ m[2] \notin Letters \cup Digits \cup DOMAIN singleChar
                                \cup {" ", "\t", "\r", "\n", "\"", "'"}
  /\ lexer.pc = "done" =>
       LET ts == lexer.tokens
       IN /\ Len(ts) >= 1
          /\ ts[Len(ts)].type = "EOF"
          /\ \A i \in 1..(Len(ts) - 1) :
               ts[i].type # "EOF" /\ notBefore(ts[i + 1], ts[i])

\* C21: for every text tokenize terminates: it raises an error that carries
\* the line and column of the offending character or of the opening quote
\* of an unterminated string, or it returns tokens of which exactly one is
\* EOF, the last, each token positioned not before the one preceding it.
C21_TokenizeTerminatesWithPositions ==
  /\ [](tokenizeOutcome)
  /\ <>(lexer.pc \in {"done", "error"})

\* an error found on the second line, after a token of the first
C21_Witness ==
  /\ lexer.pc = "error"
  /\ Len(lexer.tokens) >= 1
  /\ lexer.err.msg[1] = "Unexpected character '"
  /\ lexer.err.msg[4] = 2

(***************************************************************************)
(* Precedence of the binary operators *)
(***************************************************************************)
\* the rung of an operator on the ladder: or, and, equality, relational,
\* additive, multiplicative
rung ==
  (<<"|", "|">> :> 1) @@ (<<"&", "&">> :> 2)
  @@ (<<"=", "=">> :> 3) @@ (<<"!", "=">> :> 3)
  @@ (<<"<">> :> 4) @@ (<<">">> :> 4) @@ (<<"<", "=">> :> 4) @@ (<<">", "=">> :> 4)
  @@ (<<"+">> :> 5) @@ (<<"-">> :> 5)
  @@ (<<"*">> :> 6) @@ (<<"/">> :> 6) @@ (<<"%">> :> 6)

operand(n) == Literal(Num(n))
leftGroup(a, b)  == BinaryExpression(operatorText(b),
                      BinaryExpression(operatorText(a), operand(2), operand(3)),
                      operand(4))
rightGroup(a, b) == BinaryExpression(operatorText(a), operand(2),
                      BinaryExpression(operatorText(b), operand(3), operand(4)))

\* C22: 2 a 3 b 4 parses as 2 a (3 b 4) when b is on a strictly higher rung
\* of the ladder than a, and as (2 a 3) b 4 otherwise; a sub-expression in
\* parentheses is one operand of the operator next to it; 2 + 3 * 4
\* evaluates to 14 and (2 + 3) * 4 to 20.
C22_GroupingFollowsTheLadder ==
  /\ lexer.input \in ExpressionTexts => run.pc # "error"
  /\ run.pc = "parsed" =>
       /\ \A a \in OperatorTexts, b \in OperatorTexts :
            /\ lexer.input = plain(a, b) =>
                 run.ast = <<IF rung[b] > rung[a] THEN rightGroup(a, b)
                                                ELSE leftGroup(a, b)>>
            /\ lexer.input = groupedLeft(a, b) => run.ast = <<leftGroup(a, b)>>
            /\ lexer.input = groupedRight(a, b) => run.ast = <<rightGroup(a, b)>>
       /\ lexer.input = plain(<<"+">>, <<"*">>) =>
            evaluateNode(GlobalVariables, run.ast[1]) = Value(Num(14))
       /\ lexer.input = groupedLeft(<<"+">>, <<"*">>) =>
            evaluateNode(GlobalVariables, run.ast[1]) = Value(Num(20))

\* 2 + 3 * 4 is parsed, the product being the right operand of the sum
C22_Witness ==
  /\ run.pc = "parsed"
  /\ lexer.input = plain(<<"+">>, <<"*">>)
  /\ run.ast = <<rightGroup(<<"+">>, <<"*">>)>>

(***************************************************************************)
(* Blocks: end and else *)
(***************************************************************************)
NestingFails == [status |-> "fail", out |-> << >>]
NestingUnsettled == [status |-> "unsettled", out |-> << >>]

\* The keywords of the tokens from the i-th on, each with the number of
\* constructs open around the construct it belongs to, when every end
\* closes the innermost open construct and every else goes to the
\* innermost open check that has none: "fail" when an end finds nothing
\* open, an else finds no check without else, or a construct is open at
\* EOF; "unsettled" when the check an else would go to is not the
\* innermost open construct.
RECURSIVE nestingFrom(_, _, _, _)
nestingFrom(T, i, open, out) ==
  IF i > Len(T) \/ T[i].type = "EOF"
  THEN IF open = << >> THEN [status |-> "ok", out |-> out] ELSE NestingFails
  ELSE LET type == T[i].type
           depth == Len(open)
       IN IF type \in {"ACTION", "CHECK", "EACH", "AS"}
          THEN nestingFrom(T, i + 1, Append(open, type), Append(out, <<type, depth>>))
          ELSE IF type = "END"
          THEN IF depth = 0 THEN NestingFails
               ELSE nestingFrom(T, i + 1, SubSeq(open, 1, depth - 1),
                                Append(out, <<"END", depth - 1>>))
          ELSE IF type = "ELSE"
          THEN IF \A k \in 1..depth : open[k] # "CHECK" THEN NestingFails
               ELSE IF open[depth] # "CHECK" THEN NestingUnsettled
               ELSE nestingFrom(T, i + 1, [open EXCEPT ![depth] = "CHECK with else"],
                                Append(out, <<"ELSE", depth - 1>>))
          ELSE nestingFrom(T, i + 1, open, out)

\* the keywords of the constructs of a list of statements of the tree, in
\* the order of the text, each with the depth of its construct
RECURSIVE keywordsOf(_, _)
keywordsOf(nodes, depth) ==
  IF nodes = << >> THEN << >>
  ELSE LET node == Head(nodes)
           inside(block) == keywordsOf(block.statements, depth + 1)
           around(type, body) == << <<type, depth>> >> \o body \o << <<"END", depth>> >>
       IN (CASE node.type = "ActionDeclaration" -> around("ACTION", inside(node.body))
             [] node.type = "EachStatement" -> around("EACH", inside(node.body))
             [] node.type = "AsStatement" -> around("AS", inside(node.body))
             [] node.type = "CheckStatement" ->
                  around("CHECK",
                         inside(node.consequent)
                         \o (IF node.alternate = Null THEN << >>
                             ELSE << <<"ELSE", depth>> >> \o inside(node.alternate)))
             [] OTHER -> << >>)
          \o keywordsOf(Tail(nodes), depth)

\* C23: in the tree of a parsed text each end closes the innermost open
\* action, check, each or as, and each else belongs to the innermost open
\* check without else; a construct without its end before EOF, an end with
\* nothing open and an else with no check to go to make parse fail.
C23_EndClosesInnermost ==
  run.pc \in {"parsed", "error"} =>
    LET nesting == nestingFrom(parserTokens, 1, << >>, << >>)
    IN /\ run.pc = "parsed" =>
            nesting.status = "ok" /\ keywordsOf(run.ast, 0) = nesting.out
       /\ nesting.status = "fail" => run.pc = "error"

\* a check with else inside a check without: the else went to the inner
\* one
C23_Witness ==
  /\ run.pc = "parsed"
  /\ keywordsOf(run.ast, 0)
       = << <<"CHECK", 0>>, <<"CHECK", 1>>, <<"ELSE", 1>>, <<"END", 1>>, <<"END", 0>> >>

(***************************************************************************)
(* Progress of the parser *)
(***************************************************************************)
\* this.position of the EOF token
eofPosition == Len(parserTokens) - 1

\* the outcome r of a step of a loop entered at position p: the position
\* has advanced unless the step threw, and is not past EOF
advances(r, p) == r.p <= eofPosition /\ (r.err = Null => r.p > p)

\* the bodies of the statement, block, argument and array-element loops and
\* a whole parameter, argument or element list, entered at any token but
\* EOF, advance; the postfix loop leaves the position where it is only
\* when it ends
loopsAdvance ==
  \A p \in 0..(eofPosition - 1) :
    /\ \A body \in {"parseStatement", "parseExpression"} :
         advances(this(body, parserTokens, p, Null, Null), p)
    /\ advances(this("parseParamsFrom", parserTokens, p, << >>, Null), p)
    /\ \A close \in {"RPAREN", "RBRACKET"} :
         advances(this("parseListFrom", parserTokens, p, close, << >>), p)
    /\ LET r == this("postfixFrom", parserTokens, p, Null, Null)
       IN /\ r.p >= p /\ r.p <= eofPosition
          /\ r.err = Null /\ r.p = p =>
               ~match(parserTokens, p, {"LPAREN", "LBRACKET", "DOT"})

\* C30: on the tokens of a text, ended by EOF, the position of the parser
\* is never past EOF and every step of the loop of parse moves it forward
\* or throws, as does every step of the block, parameter, argument,
\* array-element and postfix loops from any position: parse comes to an
\* end, with the tree or an error.
C30_ParserAdvancesToEOF ==
  /\ [](/\ run.i <= eofPosition
        /\ (run.pc = "parse" /\ run.i = 0) => loopsAdvance)
  /\ [][/\ run'.i >= run.i
        /\ run'.pc = "parse" => run'.i > run.i]_vars

\* parse has returned at EOF after two turns of its loop, the block of an
\* action having taken two statements
C30_Witness ==
  /\ run.pc = "parsed"
  /\ run.i = eofPosition
  /\ Len(run.ast) = 2
  /\ run.ast[1].type = "ActionDeclaration"
  /\ Len(run.ast[1].body.statements) = 2

(***************************************************************************)
(* The closed set of values *)
(***************************************************************************)
\* C24: no program obtains a host object or a host callable that is not in
\* the builtin table: no value a program holds is a function of the host
\* (the Function constructor, Array, Object, a prototype method) or a
\* function compiled by the host from a text.
C24_NoHostValueReachable ==
  mem.v.t \notin {"host", "compiled"}

(***************************************************************************)
(* Actions and the scopes around them *)
(***************************************************************************)
\* the scope of the innermost invocation under way, 0 when there is none
invocation ==
  LET calls == {i \in 1..Len(ctrl) : ctrl[i].kind = "call"}
  IN IF calls = {} THEN 0
     ELSE ctrl[CHOOSE i \in calls : \A j \in calls : j <= i].env

\* C25: an action resolves the names that are neither its parameters nor
\* its locals in the scope chain of the place of its declaration, as that
\* chain is when the action is called and runs: the declaration captures
\* the declaring scope, a call resolves every such name as the declaring
\* scope does at that moment, whatever the caller's scope binds, and a
\* read in the body yields the binding found from the declaring scope.
C25_ActionResolvesNamesAtDeclarationSite ==
  [][/\ \A name \in ActionNames, params \in ParamLists :
          evaluateActionDeclaration(name, params) =>
            get(scopes', cur, name) = Fn(params, cur)
     /\ \A f \in Names, argx \in {<< >>} \cup {<<a>> : a \in ArgExprs} :
          (evaluateCallExpression(f, argx) /\ Len(scopes') = Len(scopes) + 1) =>
            LET fn == get(scopes, cur, f)
            IN \A n \in Names :
                 (\A i \in 1..Len(fn.params) : fn.params[i] # n) =>
                   get(scopes', Len(scopes'), n) = get(scopes, fn.def, n)
     /\ \A n \in Targets :
          (invocation # 0 /\ ExprStmt(Id(n)) /\ Holder(scopes, cur, n) < invocation) =>
            LET value == get(scopes, scopes[invocation].parent, n)
            IN IF IsError(value) THEN status' = "error" /\ ret' = PlutoError(value)
               ELSE ctrl'[Len(ctrl')].last = value]_vars

\* the body of an action declared in the global scope has read x, which
\* its own scope does not bind, and got what the global scope binds x to
C25_Witness ==
  /\ invocation = 2
  /\ scopes[2].parent = 1
  /\ ctrl[Len(ctrl)].env = 2
  /\ lastOp.op = "expr"
  /\ lastOp.env = 2
  /\ ~HasLocal(scopes, 2, "x")
  /\ lastOp.value = Num(1)
  /\ scopes[1].variables["x"] = Num(1)

\* the frames from e upwards are plain Environments
RECURSIVE plainChain(_, _)
plainChain(S, e) ==
  /\ ~S[e].isAction
  /\ S[e].parent # 0 => plainChain(S, S[e].parent)

\* C26: on a chain of plain scopes set(name, v) changes the binding of
\* name in the nearest frame that binds it and nothing else; when no frame
\* binds it, set raises the undefined-variable error and changes nothing,
\* so set never creates a binding; define changes the local frame only.
C26_SetUpdatesNearestHolder ==
  /\ [](\A e \in 1..Len(scopes) : plainChain(scopes, e) =>
          \A name \in Names, v \in Nums :
            LET r == set(scopes, e, name, v)
                holder == Holder(scopes, e, name)
            IN /\ holder # 0 =>
                    /\ r.err = Null
                    /\ r.S = [scopes EXCEPT ![holder].variables[name] = v]
               /\ holder = 0 =>
                    /\ r.err = Thrown("Undefined variable", name)
                    /\ r.S = scopes
               /\ define(scopes, e, name, v)
                    = [scopes EXCEPT ![e].variables[name] = v])
  /\ [][\A name \in Targets : \A x \in AssignExprs(name) :
          (/\ Assign(name, x)
           /\ status' # "error"
           /\ plainChain(scopes, cur)
           /\ Holder(scopes, cur, name) \notin {0, cur}) =>
            scopes' = [scopes EXCEPT
                         ![Holder(scopes, cur, name)].variables[name] = lastOp'.value]]_vars

\* an assignment in the body of an each loop of the program has updated
\* the binding of the global scope; the scope of the iteration has none
C26_Witness ==
  /\ lastOp.op = "assign"
  /\ lastOp.env = 2
  /\ lastOp.holder = 1
  /\ Len(scopes) = 2
  /\ plainChain(scopes, 2)
  /\ ~HasLocal(scopes, 2, lastOp.name)
  /\ scopes[1].variables[lastOp.name] = lastOp.value

\* C27: while an invocation of an action is under way no step changes a
\* binding of a scope that the invocation has not created, be it made
\* directly in the body, in a check or while body, in a nested each loop
\* or by an action called from it; an assignment to a name bound outside
\* binds the name in the scope of the invocation.
C27_InvocationLeavesOuterScopesUnchanged ==
  [][invocation # 0 =>
       /\ \A j \in 1..(invocation - 1) :
            j <= Len(scopes') => scopes'[j].variables = scopes[j].variables
       /\ \A name \in Targets : \A x \in AssignExprs(name) :
            (/\ Assign(name, x)
             /\ status' # "error"
             /\ Holder(scopes, cur, name) \in 1..(invocation - 1)) =>
              scopes'[invocation].variables[name] = lastOp'.value]_vars

\* an invocation has assigned 1 to x, which the global scope binds to 0:
\* x is bound in the scope of the invocation, the global x is still 0
C27_Witness ==
  /\ invocation = 2
  /\ lastOp.op = "assign"
  /\ lastOp.name = "x"
  /\ lastOp.holder = 1
  /\ lastOp.value = Num(1)
  /\ scopes[2].variables["x"] = Num(1)
  /\ scopes[1].variables["x"] = Num(0)

(***************************************************************************)
(* Errors and the global scope *)
(***************************************************************************)
\* C28: when execute fails with an error of the scanner or of the parser,
\* no statement of the text has been evaluated and the global scope is as
\* it was before the call, also when the text begins with well-formed
\* statements.
C28_NothingRunsBeforeTheTextParses ==
  [][((ExecuteTokenize \/ ExecuteParse) /\ run'.pc = "failed") =>
       /\ run'.i = 0
       /\ run'.globals = GlobalVariables
       /\ run'.result = Null
       /\ run'.ast = << >>]_vars

\* the text begins with the statement x = 1 and does not parse: x is not
\* bound
C28_Witness ==
  /\ run.pc = "failed"
  /\ lexer.pc = "done"
  /\ Len(lexer.input) > 6
  /\ SubSeq(lexer.input, 1, 6) = <<"x", " ", "=", " ", "1", "\n">>
  /\ NameOf(<<"x">>) \notin DOMAIN run.globals
  /\ run.i = 0

\* C29: an error at run time leaves the global scope as the statements
\* evaluated before it and the evaluated part of the failing statement
\* have made it, and the next call of execute starts from that scope.
C29_RuntimeErrorKeepsEarlierChanges ==
  /\ [](status = "error" => Len(scopes) = 1 /\ IsError(ret))
  /\ [][/\ (status = "running" /\ status' = "error") => scopes' = <<scopes[1]>>
        /\ (status = "error" /\ Execute) =>
             /\ scopes' = scopes
             /\ \A n \in Targets :
                  HasLocal(scopes, 1, n) =>
                    evaluate(scopes', ctrl'[1].env, Id(n)) = scopes[1].variables[n]]_vars

\* x was 1, the body of a while loop set it to 0 and then failed; the
\* next call of execute reads 0
C29_Witness ==
  /\ status = "running"
  /\ IsError(ret)
  /\ lastOp.op = "expr"
  /\ lastOp.value = Num(0)
  /\ scopes[1].variables["x"] = Num(0)
  /\ steps = 4
  /\ Len(ctrl) = 1

====
